---- MODULE Spec2Model ----
(***************************************************************************)
(* Model of the MCP integrations of this repository:                       *)
(*   - src/src/auto_anki.py : the Auto-Anki MCP server (stdio transport    *)
(*     loop, request router, tool/resource handlers, AnkiConnect client);  *)
(*   - src/mcp_notion.py    : the read-only Notion MCP server (call_tool,  *)
(*     query_database pagination).                                         *)
(* Python dicts are modelled as records whose DOMAIN is the set of keys    *)
(* present, so that `"error" in d` is `"error" \in DOMAIN d`.              *)
(***************************************************************************)
EXTENDS Integers, Sequences, FiniteSets, TLC

(***************************************************************************)
(* Bounds of the model                                                     *)
(***************************************************************************)
\* number of lines the client sends on stdin before end-of-input
MaxLines == 3
\* number of short pages (fewer items than requested) the Notion server may serve per query
MaxShort == 2
\* the query limits and database sizes explored reach 2 * 100 + MaxOver
MaxOver == 1
\* number of tokens of the texts handed to _extract_json
MaxText == 5
\* number of options of the questions handed to validation
MaxOptions == 5
\* number of questions in a reply of the question assistant
MaxQuestions == 3
\* number of questions, and of answers, handed to convert_to_anki_cards
MaxCards == 2
\* number of call_tool invocations that may be in flight at once
MaxCalls == 2
\* number of rows of the database that query_database of call_tool reads
MaxItems == 2
\* number of card ids findCards reports to get_cards
MaxFound == 3
\* number of entries of the answers handed to update_cards
MaxAnswers == 3

Min(a, b) == IF a < b THEN a ELSE b
Max(a, b) == IF a > b THEN a ELSE b

HasKey(d, k) == k \in DOMAIN d

\* dict.get(k, default)
Get(d, k, default) == IF k \in DOMAIN d THEN d[k] ELSE default

\* the slice s[:n] keeping the whole list
SliceTo_All(s, n) == s

\* Python slice s[:n] of a list
SliceTo(s, n) ==
  IF n >= 0 THEN SubSeq(s, 1, Min(n, Len(s)))
  ELSE SubSeq(s, 1, Max(Len(s) + n, 0))

(***************************************************************************)
(* AnkiConnect client (class AnkiConnector).  The outcome of one HTTP      *)
(* exchange is drawn by the environment:                                   *)
(*   "ok"      the reply has a "result" key and no "error" key             *)
(*   "error"   the reply has an "error" key                                *)
(*   "reqfail" requests.post raised requests.RequestException              *)
(*   "raise"   the reply has neither key: result["result"] raises KeyError *)
(* A message (str(e), an error field) is a sequence of string tokens.       *)
(* Every connector operation returns [exc, ret, calls]: the message of an  *)
(* exception escaping it (<<>> when none does), its return value, and the  *)
(* AnkiConnect actions it posted, in order.                                *)
(***************************************************************************)
Outcomes == {"ok", "error", "reqfail", "raise"}

KeyErrorResult == <<"'result'">>

create_deck(deck_name, env) ==
  [exc |-> <<>>, ret |-> (env.createDeck \in {"ok", "raise"}), calls |-> <<"createDeck">>]

\* the outcome of the k-th addNote / answerCard exchange of one request
OutcomeAt(outcomes, k) == IF k <= Len(outcomes) THEN outcomes[k] ELSE "ok"

\* the note id AnkiConnect assigns to the k-th note of one request
NoteId(k) == k

\* add_card posting addNote without creating the deck first
add_card_NoDeck(front, back, deck_name, env, k) ==
  LET o == OutcomeAt(env.addNote, k)
  IN [exc |-> IF o = "raise" THEN KeyErrorResult ELSE <<>>,
      ret |-> IF o = "ok" THEN NoteId(k) ELSE 0,
      calls |-> <<"addNote">>]

add_card(front, back, deck_name, env, k) ==
  LET d == create_deck(deck_name, env)
      o == OutcomeAt(env.addNote, k)
  IN CASE o = "ok"      -> [exc |-> <<>>, ret |-> NoteId(k), calls |-> d.calls \o <<"addNote">>]
       [] o = "error"   -> [exc |-> <<>>, ret |-> 0, calls |-> d.calls \o <<"addNote">>]
       [] o = "reqfail" -> [exc |-> <<>>, ret |-> 0, calls |-> d.calls \o <<"addNote">>]
       [] OTHER         -> [exc |-> KeyErrorResult, ret |-> 0, calls |-> d.calls \o <<"addNote">>]

update_card(card_id, ease, env, k) ==
  [exc |-> <<>>, ret |-> (OutcomeAt(env.answerCard, k) \in {"ok", "raise"}),
   calls |-> <<"answerCard">>]

\* one entry of the list built at auto_anki.py:262-269 from a cardsInfo item
FormatCard(id) ==
  [cardId |-> id, front |-> <<"Front">>, back |-> <<"Back">>, due |-> "", deck |-> ""]

get_cards(query, limit, env) ==
  CASE env.findCards = "reqfail" -> [exc |-> <<>>, ret |-> <<>>, calls |-> <<"findCards">>]
    [] env.findCards = "error"   -> [exc |-> <<>>, ret |-> <<>>, calls |-> <<"findCards">>]
    [] env.findCards = "raise"   -> [exc |-> KeyErrorResult, ret |-> <<>>, calls |-> <<"findCards">>]
    [] OTHER ->
       LET card_ids == SliceTo(env.found, limit) IN
       IF card_ids = <<>> THEN [exc |-> <<>>, ret |-> <<>>, calls |-> <<"findCards">>]
       ELSE CASE env.cardsInfo = "reqfail" ->
                   [exc |-> <<>>, ret |-> <<>>, calls |-> <<"findCards", "cardsInfo">>]
              [] env.cardsInfo = "error" ->
                   [exc |-> <<>>, ret |-> <<>>, calls |-> <<"findCards", "cardsInfo">>]
              [] env.cardsInfo = "raise" ->
                   [exc |-> KeyErrorResult, ret |-> <<>>, calls |-> <<"findCards", "cardsInfo">>]
              [] OTHER ->
                   [exc |-> <<>>, ret |-> [i \in 1..Len(card_ids) |-> FormatCard(card_ids[i])],
                    calls |-> <<"findCards", "cardsInfo">>]

(***************************************************************************)
(* Question generation (class QuestionGeneratorAgent).  The LLM is an      *)
(* untrusted text producer; its reply to one chat is drawn by the          *)
(* environment:                                                            *)
(*   "throws"  initiate_chat raised                                        *)
(*   "nojson"  the last message has no '{' or no '}'                       *)
(*   "badjson" the text between the first '{' and the last '}' is not JSON *)
(*   "json"    that text parses; env carries the parsed value              *)
(* Texts are sequences of tokens; a question is a record with the keys of  *)
(* MultipleChoiceQuestion.                                                 *)
(***************************************************************************)
Letters == <<"A", "B", "C", "D">>

\* field validators of MultipleChoiceQuestion
\* validate_correct_answer accepting the letter E as well
validate_correct_answer_WithE(value) == value \in {"A", "B", "C", "D", "E"}

validate_correct_answer(value) == value \in {"A", "B", "C", "D"}

\* validate_options accepting four options or more
validate_options_AtLeast(options) == Len(options) >= 4

validate_options(options) == Len(options) = 4

\* MultipleChoiceQuestion.model_validate(data) followed by model_dump(): [exc, ret].
\* exc lists the fields that failed, in the order of their declaration; type takes its
\* default when absent and is not validated further
MultipleChoiceQuestion(data) ==
  LET missing == [f \in {"id", "question", "options", "correct_answer"} |-> ~HasKey(data, f)]
      bad_options == IF missing["options"] THEN <<"options: Field required">>
                     ELSE IF ~validate_options(data.options)
                     THEN <<"options: There must be exactly 4 options">>
                     ELSE <<>>
      bad_answer == IF missing["correct_answer"] THEN <<"correct_answer: Field required">>
                    ELSE IF ~validate_correct_answer(data.correct_answer)
                    THEN <<"correct_answer: correct_answer must be one of A, B, C, or D">>
                    ELSE <<>>
      errors == (IF missing["id"] THEN <<"id: Field required">> ELSE <<>>)
                \o (IF missing["question"] THEN <<"question: Field required">> ELSE <<>>)
                \o bad_options \o bad_answer
  IN  IF errors # <<>> THEN [exc |-> errors, ret |-> <<>>]
      ELSE [exc |-> <<>>,
            ret |-> [id |-> data.id, type |-> Get(data, "type", "multiple_choice"),
                     question |-> data.question, options |-> data.options,
                     correct_answer |-> data.correct_answer]]

\* QuestionsOutput.model_validate succeeds
QuestionsValid(json_data) ==
  /\ HasKey(json_data, "topic")
  /\ HasKey(json_data, "questions")
  /\ \A i \in 1..Len(json_data.questions) :
       MultipleChoiceQuestion(json_data.questions[i]).exc = <<>>

\* QuestionsOutput.model_validate(json_data).model_dump()
QuestionsDump(json_data) ==
  [topic |-> json_data.topic,
   questions |-> [i \in 1..Len(json_data.questions) |->
                    MultipleChoiceQuestion(json_data.questions[i]).ret]]

\* ValidatedQuestions returning the parsed reply as it is
ValidatedQuestions_Unchecked(json_data) == json_data

\* the try block around model_validate: the validated record, or the error mapping
ValidatedQuestions(json_data) ==
  IF QuestionsValid(json_data) THEN QuestionsDump(json_data)
  ELSE [error |-> <<"Invalid question format:", "validation error">>]

generate_questions(topic, num_questions, env) ==
  CASE env.qReply = "throws"  -> [error |-> <<"Exception in generate_questions:", "chat failed">>]
    [] env.qReply = "nojson"  -> [error |-> <<"No JSON object found in assistant response">>]
    [] env.qReply = "badjson" -> [error |-> <<"Invalid question format:", "not JSON">>]
    [] OTHER -> ValidatedQuestions(env.qJson)

\* the placeholder answer built from a question (question_generator.py:336 and :417-421)
MinimalAnswer(q) ==
  [id |-> q.id, answer |-> q.correct_answer,
   explanation |-> <<"The correct answer is", q.correct_answer, ".">>]

MinimalAnswers(questions) == [i \in 1..Len(questions) |-> MinimalAnswer(questions[i])]

\* AnswersOutput.model_validate succeeds
AnswersValid(json_data) == HasKey(json_data, "topic") /\ HasKey(json_data, "answers")

generate_answers(questions_data, env) ==
  IF HasKey(questions_data, "error") THEN questions_data
  ELSE CASE env.aReply = "throws" -> [error |-> <<"Exception in generate_answers:", "chat failed">>]
         [] env.aReply = "nojson" -> [error |-> <<"No JSON object found in answer response">>]
         [] env.aReply = "badjson" ->
              [topic |-> Get(questions_data, "topic", ""),
               answers |-> MinimalAnswers(Get(questions_data, "questions", <<>>))]
         [] OTHER ->
              IF AnswersValid(env.aJson) THEN env.aJson
              ELSE [topic |-> Get(questions_data, "topic", ""),
                    answers |-> MinimalAnswers(Get(questions_data, "questions", <<>>))]

\* WithPlaceholders passing the error of generate_answers on
WithPlaceholders_PassError(topic, questions_data, answers_data) ==
  <<questions_data, answers_data>>

\* generate from line 408 on, once generate_answers has returned: placeholder answers
\* replace an answers_data that carries an error
WithPlaceholders(topic, questions_data, answers_data) ==
  IF HasKey(answers_data, "error")
  THEN <<questions_data,
         [topic |-> Get(questions_data, "topic", topic),
          answers |-> MinimalAnswers(questions_data.questions)]>>
  ELSE <<questions_data, answers_data>>

\* generate from line 393 on, once generate_questions has returned
GenerateFrom(topic, questions_data, env) ==
  IF HasKey(questions_data, "error")
  THEN <<questions_data, [error |-> <<"Failed to generate questions">>]>>
  ELSE IF Get(questions_data, "questions", <<>>) = <<>>
  THEN <<questions_data, [error |-> <<"No questions generated">>]>>
  ELSE WithPlaceholders(topic, questions_data, generate_answers(questions_data, env))

\* the pair (questions_data, answers_data); save_to_files only writes files
generate(topic, num_questions, save, env) ==
  GenerateFrom(topic, generate_questions(topic, num_questions, env), env)

\* GenerateSteps calling generate_answers whatever generate_questions returned
GenerateSteps_AlwaysAnswer(questions_data, answers_data, save) ==
  <<"answer_assistant">>
  \o (IF save /\ ~HasKey(answers_data, "error") THEN <<"save_to_files">> ELSE <<>>)

\* what generate does from line 393 on, in order: the chat with the answer assistant
\* (generate_answers, past its test of line 284) and save_to_files; answers_data is
\* the second component of what generate returns
GenerateSteps(questions_data, answers_data, save) ==
  IF HasKey(questions_data, "error") THEN <<>>
  ELSE IF Get(questions_data, "questions", <<>>) = <<>> THEN <<>>
  ELSE <<"answer_assistant">>
       \o (IF save /\ ~HasKey(answers_data, "error") THEN <<"save_to_files">> ELSE <<>>)

\* the collaborators generate calls, in order, given the pair g it returns:
\* generate_questions always opens the chat with the question assistant
GenerateCalls(g, save) == <<"question_assistant">> \o GenerateSteps(g[1], g[2], save)

(***************************************************************************)
(* Card formatting (class AnkiCardGenerator)                               *)
(***************************************************************************)
\* ord(c) - 65 for the first character of correct_answer
LetterIndex(c) ==
  CASE c = "A" -> 0 [] c = "B" -> 1 [] c = "C" -> 2 [] c = "D" -> 3
    [] c = "E" -> 4 [] c = "@" -> -1 [] OTHER -> 32

\* Python list indexing: negative indexes count from the end, others raise IndexError
PyIndexOk(s, i) == -Len(s) <= i /\ i < Len(s)

PyIndex(s, i) == IF i >= 0 THEN s[i + 1] ELSE s[Len(s) + i + 1]

\* [exc, front, back]
format_multiple_choice(question_data) ==
  LET options == question_data.options
      correct_letter == question_data.correct_answer
      correct_index == LetterIndex(correct_letter)
  IN IF ~PyIndexOk(options, correct_index)
     THEN [exc |-> <<"list index out of range">>, front |-> <<>>, back |-> <<>>]
     ELSE [exc |-> <<>>,
           front |-> <<question_data.question>> \o options,
           back |-> <<"Answer:", correct_letter, PyIndex(options, correct_index),
                      "Explanation:">> \o Get(question_data, "explanation", <<>>)]

format_long_answer(question_data, answer_data) ==
  LET explanation == Get(answer_data, "explanation", <<>>) IN
  [exc |-> <<>>,
   front |-> <<question_data.question>>,
   back |-> IF explanation # <<>>
            THEN <<answer_data.answer, "Additional notes:">> \o explanation
            ELSE <<answer_data.answer>>]

\* the answer_map of convert_to_anki_cards: the last answer with a given id wins
AnswerIds(answers) == {answers[i].id : i \in 1..Len(answers)}

AnswerFor(answers, q_id) ==
  answers[CHOOSE i \in 1..Len(answers) :
            /\ answers[i].id = q_id
            /\ \A j \in (i + 1)..Len(answers) : answers[j].id # q_id]

\* CardOf formatting a question of any other type as a long answer
CardOf_KeepUnsupported(question, answers) ==
  IF question.id \notin AnswerIds(answers)
  THEN [exc |-> <<>>, skip |-> TRUE, card |-> <<>>]
  ELSE LET answer_data == AnswerFor(answers, question.id)
           f == IF question.type = "multiple_choice"
                THEN format_multiple_choice(
                       [k \in DOMAIN question \cup {"explanation"} |->
                          IF k = "explanation" THEN Get(answer_data, "explanation", <<>>)
                          ELSE question[k]])
                ELSE format_long_answer(question, answer_data)
       IN [exc |-> f.exc, skip |-> FALSE, card |-> [front |-> f.front, back |-> f.back]]

\* the card of one question: [exc, skip, card]
CardOf(question, answers) ==
  IF question.id \notin AnswerIds(answers)
  THEN [exc |-> <<>>, skip |-> TRUE, card |-> <<>>]
  ELSE LET answer_data == AnswerFor(answers, question.id)
           f == IF question.type = "multiple_choice"
                THEN format_multiple_choice(
                       [k \in DOMAIN question \cup {"explanation"} |->
                          IF k = "explanation" THEN Get(answer_data, "explanation", <<>>)
                          ELSE question[k]])
                ELSE format_long_answer(question, answer_data)
       IN IF question.type \notin {"multiple_choice", "long_answer"}
          THEN [exc |-> <<>>, skip |-> TRUE, card |-> <<>>]
          ELSE [exc |-> f.exc, skip |-> FALSE, card |-> [front |-> f.front, back |-> f.back]]

RECURSIVE ConvertFrom(_, _, _)
ConvertFrom(questions, answers, i) ==
  IF i > Len(questions) THEN [exc |-> <<>>, cards |-> <<>>]
  ELSE LET c == CardOf(questions[i], answers) IN
       IF c.exc # <<>> THEN [exc |-> c.exc, cards |-> <<>>]
       ELSE LET rest == ConvertFrom(questions, answers, i + 1) IN
            [exc |-> rest.exc,
             cards |-> IF c.skip THEN rest.cards ELSE <<c.card>> \o rest.cards]

\* [exc, cards]
convert_to_anki_cards(questions_data, answers_data) ==
  ConvertFrom(questions_data.questions, answers_data.answers, 1)

(***************************************************************************)
(* Handlers of MCPAnkiServer.  params is [dict |-> FALSE] for a JSON value *)
(* that is not an object and [dict |-> TRUE, d |-> <record>] otherwise.    *)
(* A handler returns [exc, ret, calls].                                    *)
(***************************************************************************)
AttributeErrorGet == <<"'list' object has no attribute 'get'">>

_handle_deck_current(params, env) ==
  LET r == get_cards("deck:current", 10, env) IN
  [exc |-> r.exc, ret |-> [cards |-> r.ret], calls |-> r.calls]

_handle_is_due(params, env) ==
  LET r == get_cards("is:due", 10, env) IN
  [exc |-> r.exc, ret |-> [cards |-> r.ret], calls |-> r.calls]

_handle_is_new(params, env) ==
  LET r == get_cards("is:new", 10, env) IN
  [exc |-> r.exc, ret |-> [cards |-> r.ret], calls |-> r.calls]

\* the loop of _handle_update_cards from entry i on; k counts the answerCard exchanges
RECURSIVE UpdateFrom(_, _, _, _)
UpdateFrom(answers, env, i, k) ==
  IF i > Len(answers) THEN [results |-> <<>>, calls |-> <<>>]
  ELSE LET card_id == Get(answers[i], "cardId", 0)
           ease == Get(answers[i], "ease", 0)
       IN IF card_id = 0 \/ ease = 0
          THEN LET rest == UpdateFrom(answers, env, i + 1, k) IN
               [results |-> <<[success |-> FALSE, error |-> <<"Missing cardId or ease">>]>>
                              \o rest.results,
                calls |-> rest.calls]
          ELSE LET u == update_card(card_id, ease, env, k)
                   rest == UpdateFrom(answers, env, i + 1, k + 1)
               IN [results |-> <<[success |-> u.ret, cardId |-> card_id]>> \o rest.results,
                   calls |-> u.calls \o rest.calls]

\* _handle_update_cards leaving its loop at the first entry without cardId or ease
_handle_update_cards_Break(params, env) ==
  IF ~params.dict THEN [exc |-> AttributeErrorGet, ret |-> <<>>, calls |-> <<>>]
  ELSE LET answers == Get(params.d, "answers", <<>>)
           bad == {i \in 1..Len(answers) :
                     Get(answers[i], "cardId", 0) = 0 \/ Get(answers[i], "ease", 0) = 0}
           r == UpdateFrom(IF bad = {} THEN answers
                           ELSE SubSeq(answers, 1, CHOOSE i \in bad : \A j \in bad : i <= j),
                           env, 1, 1)
       IN [exc |-> <<>>, ret |-> [results |-> r.results], calls |-> r.calls]

_handle_update_cards(params, env) ==
  IF ~params.dict THEN [exc |-> AttributeErrorGet, ret |-> <<>>, calls |-> <<>>]
  ELSE LET r == UpdateFrom(Get(params.d, "answers", <<>>), env, 1, 1) IN
       [exc |-> <<>>, ret |-> [results |-> r.results], calls |-> r.calls]

_handle_add_card(params, env) ==
  IF ~params.dict THEN [exc |-> AttributeErrorGet, ret |-> <<>>, calls |-> <<>>]
  ELSE LET front == Get(params.d, "front", "")
           back == Get(params.d, "back", "")
           deck == Get(params.d, "deck", "Default")
       IN IF front = "" \/ back = ""
          THEN [exc |-> <<>>,
                ret |-> [success |-> FALSE, error |-> <<"Missing front or back content">>],
                calls |-> <<>>]
          ELSE LET a == add_card(front, back, deck, env, 1) IN
               [exc |-> a.exc,
                ret |-> [success |-> a.ret > 0, cardId |-> IF a.ret > 0 THEN a.ret ELSE 0],
                calls |-> a.calls]

_handle_get_due_cards(params, env) ==
  IF ~params.dict THEN [exc |-> AttributeErrorGet, ret |-> <<>>, calls |-> <<>>]
  ELSE LET r == get_cards("is:due", Get(params.d, "num", 10), env) IN
       [exc |-> r.exc, ret |-> [cards |-> r.ret], calls |-> r.calls]

_handle_get_new_cards(params, env) ==
  IF ~params.dict THEN [exc |-> AttributeErrorGet, ret |-> <<>>, calls |-> <<>>]
  ELSE LET r == get_cards("is:new", Get(params.d, "num", 10), env) IN
       [exc |-> r.exc, ret |-> [cards |-> r.ret], calls |-> r.calls]

\* the loop of _handle_generate_cards over the cards from card i on: [exc, added, calls]
RECURSIVE AddFrom(_, _, _, _)
AddFrom(cards, deck_name, env, i) ==
  IF i > Len(cards) THEN [exc |-> <<>>, added |-> <<>>, calls |-> <<>>]
  ELSE LET a == add_card(cards[i].front, cards[i].back, deck_name, env, i) IN
       IF a.exc # <<>> THEN [exc |-> a.exc, added |-> <<>>, calls |-> a.calls]
       ELSE LET rest == AddFrom(cards, deck_name, env, i + 1) IN
            [exc |-> rest.exc,
             added |-> IF a.ret > 0
                       THEN <<[cardId |-> a.ret, front |-> cards[i].front,
                               back |-> cards[i].back]>> \o rest.added
                       ELSE rest.added,
             calls |-> a.calls \o rest.calls]

\* AddedResult counting every card as added
AddedResult_AllAdded(topic, cards, a) ==
  IF a.exc # <<>>
  THEN [exc |-> <<>>, ret |-> [success |-> FALSE, error |-> a.exc], calls |-> a.calls]
  ELSE [exc |-> <<>>,
        ret |-> [success |-> TRUE, topic |-> topic, cards_generated |-> Len(cards),
                 cards_added |-> Len(cards), added_cards |-> a.added],
        calls |-> a.calls]

\* _handle_generate_cards from line 407 on: the result once the cards have been added
AddedResult(topic, cards, a) ==
  IF a.exc # <<>>
  THEN [exc |-> <<>>, ret |-> [success |-> FALSE, error |-> a.exc], calls |-> a.calls]
  ELSE [exc |-> <<>>,
        ret |-> [success |-> TRUE, topic |-> topic, cards_generated |-> Len(cards),
                 cards_added |-> Len(a.added), added_cards |-> a.added],
        calls |-> a.calls]

\* _handle_generate_cards from line 396 on: c is what convert_to_anki_cards produced
AddConverted(topic, deck_name, c, env) ==
  IF c.exc # <<>>
  THEN [exc |-> <<>>, ret |-> [success |-> FALSE, error |-> c.exc], calls |-> <<>>]
  ELSE AddedResult(topic, c.cards, AddFrom(c.cards, deck_name, env, 1))

\* _handle_generate_cards from line 388 on: g is what generate returned
CardsFromGenerated(topic, deck_name, g, env) ==
  IF HasKey(g[1], "error") \/ HasKey(g[2], "error")
  THEN [exc |-> <<>>,
        ret |-> [success |-> FALSE,
                 error |-> IF Get(g[1], "error", <<>>) # <<>> THEN g[1].error
                           ELSE Get(g[2], "error", <<>>)],
        calls |-> <<>>]
  ELSE AddConverted(topic, deck_name, convert_to_anki_cards(g[1], g[2]), env)

_handle_generate_cards(params, env) ==
  IF ~params.dict THEN [exc |-> AttributeErrorGet, ret |-> <<>>, calls |-> <<>>]
  ELSE IF Get(params.d, "topic", "") = ""
  THEN [exc |-> <<>>, ret |-> [success |-> FALSE, error |-> <<"Missing topic">>],
        calls |-> <<>>]
  ELSE CardsFromGenerated(params.d.topic, Get(params.d, "deck", "Auto-Anki"),
                          generate(params.d.topic, Get(params.d, "num", 5), FALSE, env),
                          env)

(***************************************************************************)
(* The request router (MCPAnkiServer.handle_request).  A request is the    *)
(* dict parsed from one line; the protocol makes "name" a string.          *)
(***************************************************************************)
EmptyDict == [k \in {} |-> 0]

Dict(d) == [dict |-> TRUE, d |-> d]

NotADict == [dict |-> FALSE]

resource_handlers ==
  {"anki://search/deckcurrent", "anki://search/isdue", "anki://search/isnew"}

tool_handlers ==
  {"update_cards", "add_card", "get_due_cards", "get_new_cards", "generate_cards_from_topic"}

CallResource(resource_name, params, env) ==
  CASE resource_name = "anki://search/deckcurrent" -> _handle_deck_current(params, env)
    [] resource_name = "anki://search/isdue"       -> _handle_is_due(params, env)
    [] OTHER                                       -> _handle_is_new(params, env)

CallTool(tool_name, params, env) ==
  CASE tool_name = "update_cards"  -> _handle_update_cards(params, env)
    [] tool_name = "add_card"      -> _handle_add_card(params, env)
    [] tool_name = "get_due_cards" -> _handle_get_due_cards(params, env)
    [] tool_name = "get_new_cards" -> _handle_get_new_cards(params, env)
    [] OTHER                       -> _handle_generate_cards(params, env)

\* Manifest leaving generate_cards_from_topic out of the tools it advertises
Manifest_WithoutGenerate ==
  [schema_version |-> "1.0",
   name |-> "auto-anki",
   resources |-> <<"anki://search/deckcurrent", "anki://search/isdue", "anki://search/isnew">>,
   tools |-> <<"update_cards", "add_card", "get_due_cards", "get_new_cards">>]

\* the body of the manifest response (descriptions and parameter schemas left out)
Manifest ==
  [schema_version |-> "1.0",
   name |-> "auto-anki",
   resources |-> <<"anki://search/deckcurrent", "anki://search/isdue", "anki://search/isnew">>,
   tools |-> <<"update_cards", "add_card", "get_due_cards", "get_new_cards",
               "generate_cards_from_topic">>]

\* HandlerResponse without the except clause: the exception leaves handle_request
HandlerResponse_NoCatch(kind, h) ==
  IF h.exc = <<>>
  THEN [resp |-> [type |-> kind, status |-> "success", body |-> h.ret], raised |-> <<>>]
  ELSE [resp |-> <<>>, raised |-> h.exc]

\* the try/except around a handler call (auto_anki.py:436-448 and :462-475): the
\* envelope for what the handler returned or raised.  raised is the message of an
\* exception that escapes handle_request (<<>> when none does).
HandlerResponse(kind, h) ==
  IF h.exc = <<>>
  THEN [resp |-> [type |-> kind, status |-> "success", body |-> h.ret], raised |-> <<>>]
  ELSE [resp |-> [type |-> kind, status |-> "error", error |-> h.exc], raised |-> <<>>]

\* UnknownResponse reusing the envelope of the final else branch
UnknownResponse_Generic(kind, label, name) ==
  [type |-> "error", error |-> <<label, name>>]

\* the else branches for a name that has no handler (auto_anki.py:449-454 and :476-481)
UnknownResponse(kind, label, name) ==
  [type |-> kind, status |-> "error", error |-> <<label, name>>]

\* the manifest branch
ManifestResponse == [type |-> "manifest_response", body |-> Manifest]

\* the final else branch
UnknownTypeResponse(request_type) ==
  [type |-> "error", error |-> <<"Unknown request type:", request_type>>]

\* [resp, raised, handler, calls, hexc]: the response, the message of an exception
\* escaping handle_request (<<>> when it returns), the handler invoked ("none" when
\* none is), the AnkiConnect actions posted while handling, and the message of the
\* exception the handler raised (<<>> when it returned)
handle_request(request, env) ==
  LET request_type == Get(request, "type", "None")
      name == Get(request, "name", "")
      params == Get(request, "params", Dict(EmptyDict))
  IN CASE request_type = "resource" ->
            IF name \in resource_handlers
            THEN LET h == CallResource(name, params, env)
                     r == HandlerResponse("resource_response", h)
                 IN [resp |-> r.resp, raised |-> r.raised, handler |-> name,
                     calls |-> h.calls, hexc |-> h.exc]
            ELSE [resp |-> UnknownResponse("resource_response", "Unknown resource:", name),
                  raised |-> <<>>, handler |-> "none", calls |-> <<>>, hexc |-> <<>>]
       [] request_type = "tool" ->
            IF name \in tool_handlers
            THEN LET h == CallTool(name, params, env)
                     r == HandlerResponse("tool_response", h)
                 IN [resp |-> r.resp, raised |-> r.raised, handler |-> name,
                     calls |-> h.calls, hexc |-> h.exc]
            ELSE [resp |-> UnknownResponse("tool_response", "Unknown tool:", name),
                  raised |-> <<>>, handler |-> "none", calls |-> <<>>, hexc |-> <<>>]
       [] request_type = "manifest" ->
            [resp |-> ManifestResponse,
             raised |-> <<>>, handler |-> "none", calls |-> <<>>, hexc |-> <<>>]
       [] OTHER ->
            [resp |-> UnknownTypeResponse(request_type),
             raised |-> <<>>, handler |-> "none", calls |-> <<>>, hexc |-> <<>>]

\* the responses the except clauses of the loop build (auto_anki.py:640-653)
InvalidJsonResponse == [type |-> "error", error |-> <<"Invalid JSON request">>]

ExceptionResponse(message) == [type |-> "error", error |-> message]

\* the body of one iteration of the loop of MCPAnkiServer.start, after readline:
\* json.loads, handle_request, and the response each except clause builds.
\* except_ names the except clause of the loop that built the response ("none" when
\* handle_request returned).  A JSON value that is not an object has no get method:
\* handle_request raises AttributeError at its first statement.
ProcessLine(line, env) ==
  IF line.json = "invalid"
  THEN [resp |-> InvalidJsonResponse,
        handler |-> "none", calls |-> <<>>, hexc |-> <<>>, except_ |-> "JSONDecodeError"]
  ELSE LET r == IF line.json = "nonobject"
                THEN [resp |-> <<>>, raised |-> AttributeErrorGet, handler |-> "none",
                      calls |-> <<>>, hexc |-> <<>>]
                ELSE handle_request(line.request, env)
       IN IF r.raised # <<>>
          THEN [resp |-> ExceptionResponse(r.raised), handler |-> r.handler,
                calls |-> r.calls, hexc |-> r.hexc, except_ |-> "Exception"]
          ELSE [resp |-> r.resp, handler |-> r.handler, calls |-> r.calls,
                hexc |-> r.hexc, except_ |-> "none"]

(***************************************************************************)
(* The inputs explored: the lines a client may send and the outcomes the   *)
(* remote services may produce while one line is handled.                  *)
(***************************************************************************)
Q(id, type, ca, nopt) ==
  [id |-> id, type |-> type, question |-> "What?",
   options |-> [i \in 1..nopt |-> "option"], correct_answer |-> ca]

A(id, answer) == [id |-> id, answer |-> answer, explanation |-> <<"because">>]

DefaultEnv ==
  [createDeck |-> "ok", addNote |-> <<>>, answerCard |-> <<>>,
   findCards |-> "ok", found |-> <<1, 2>>, cardsInfo |-> "ok",
   qReply |-> "json",
   qJson |-> [topic |-> "T", questions |-> <<Q(1, "multiple_choice", "A", 4),
                                             Q(2, "multiple_choice", "C", 4)>>],
   aReply |-> "json",
   aJson |-> [topic |-> "T", answers |-> <<A(1, "A"), A(2, "C")>>]]

CardEnvs ==
  {[DefaultEnv EXCEPT !.findCards = f, !.found = n, !.cardsInfo = c] :
     f \in Outcomes, n \in {<<>>, <<1, 2>>}, c \in {"ok", "error", "raise"}}

AddEnvs ==
  {[DefaultEnv EXCEPT !.createDeck = d, !.addNote = a] :
     d \in {"ok", "reqfail"}, a \in {<<>>, <<"error">>, <<"reqfail">>, <<"raise">>}}

UpdateEnvs ==
  {[DefaultEnv EXCEPT !.answerCard = a] : a \in {<<>>, <<"error">>, <<"ok", "reqfail">>}}

GenerateEnvs ==
  {[DefaultEnv EXCEPT !.qReply = q] : q \in {"throws", "nojson", "badjson"}}
  \cup {[DefaultEnv EXCEPT !.qJson = j] :
          j \in {[topic |-> "T", questions |-> <<>>],
                 [topic |-> "T", questions |-> <<Q(1, "multiple_choice", "E", 4)>>],
                 [topic |-> "T", questions |-> <<Q(1, "multiple_choice", "B", 3)>>],
                 [topic |-> "T", questions |-> <<Q(1, "long_answer", "B", 4),
                                                 Q(3, "multiple_choice", "D", 4)>>]}}
  \cup {[DefaultEnv EXCEPT !.aReply = a, !.addNote = n] :
          a \in {"throws", "nojson", "badjson", "json"},
          n \in {<<>>, <<"error">>, <<"ok", "raise">>}}

EnvsFor(line) ==
  IF line.json # "object" THEN {DefaultEnv}
  ELSE LET name == Get(line.request, "name", "") IN
       CASE name \in resource_handlers \cup {"get_due_cards", "get_new_cards"} -> CardEnvs
         [] name = "add_card" -> AddEnvs
         [] name = "update_cards" -> UpdateEnvs
         [] name = "generate_cards_from_topic" -> GenerateEnvs
         [] OTHER -> {DefaultEnv}

ParamsFor(name) ==
  CASE name = "update_cards" ->
         {NotADict, Dict(EmptyDict),
          Dict([answers |-> <<[cardId |-> 7, ease |-> 3]>>]),
          Dict([answers |-> <<[cardId |-> 7], [cardId |-> 8, ease |-> 1]>>])}
    [] name = "add_card" ->
         {NotADict, Dict(EmptyDict), Dict([front |-> "F"]), Dict([back |-> "B"]),
          Dict([front |-> "F", back |-> "B"])}
    [] name \in {"get_due_cards", "get_new_cards"} ->
         {NotADict, Dict(EmptyDict), Dict([num |-> 1])}
    [] name = "generate_cards_from_topic" ->
         {NotADict, Dict(EmptyDict), Dict([topic |-> "T"])}
    [] OTHER -> {Dict(EmptyDict)}

Names == resource_handlers \cup tool_handlers \cup {"unknown_tool", ""}

Lines ==
  {[json |-> "invalid"], [json |-> "nonobject"],
   [json |-> "object", request |-> [type |-> "manifest"]],
   [json |-> "object", request |-> [type |-> "bogus"]],
   [json |-> "object", request |-> [name |-> "add_card"]]}
  \cup {[json |-> "object", request |-> [type |-> "tool", name |-> n, params |-> p]] :
          n \in {"unknown_tool"}, p \in {Dict(EmptyDict)}}
  \cup UNION {{[json |-> "object", request |-> [type |-> t, name |-> n, params |-> p]] :
                 p \in ParamsFor(n)} : t \in {"resource", "tool"}, n \in Names}
  \cup {[json |-> "object", request |-> [type |-> t]] : t \in {"resource", "tool"}}

\* the lines of the sessions of more than one line: one line per path through the loop
CoreLines ==
  {[json |-> "invalid"], [json |-> "nonobject"],
   [json |-> "object", request |-> [type |-> "manifest"]],
   [json |-> "object", request |-> [type |-> "bogus"]],
   [json |-> "object",
    request |-> [type |-> "tool", name |-> "unknown_tool", params |-> Dict(EmptyDict)]],
   [json |-> "object",
    request |-> [type |-> "tool", name |-> "add_card", params |-> Dict(EmptyDict)]],
   [json |-> "object",
    request |-> [type |-> "tool", name |-> "add_card",
                 params |-> Dict([front |-> "F", back |-> "B"])]],
   [json |-> "object",
    request |-> [type |-> "tool", name |-> "generate_cards_from_topic",
                 params |-> NotADict]],
   [json |-> "object",
    request |-> [type |-> "resource", name |-> "anki://search/isdue",
                 params |-> Dict(EmptyDict)]]}

(***************************************************************************)
(* State                                                                   *)
(***************************************************************************)
VARIABLES
  pc,          \* position of MCPAnkiServer.start: "start", "read", "handle", "write", "done"
  wide,        \* the session explored: one line of Lines, or up to MaxLines of CoreLines
  linesRead,   \* the lines readline has returned, in order
  outcome,     \* what handling the current line produced (ProcessLine), <<>> when idle
  stdout,      \* the response lines written to stdout, in order
  exitReason,  \* why start returned: "none", "noconnect", "eof", "exception"
  npc,         \* position of call_tool(query_database): "idle", "loop", "await",
               \* "return", "done"
  limit,       \* int(arguments.get("limit", 100))
  total,       \* number of items the database holds (the server's state)
  all_results, \* accumulated items
  next_cursor, \* cursor of the last response, NoCursor for None
  requests,    \* the queries posted by this call, in order
  responses,   \* per response: the number of items it carried and its next_cursor
  shortLeft,   \* short pages the server may still serve
  result,      \* what call_tool returned: "none", "ok", "error"
  epc,         \* position of _extract_json: "idle", "whole", "blocks", "done"
  text,        \* the text _extract_json was called with
  matches,     \* the fenced-block matches not tried yet
  tried,       \* the strings handed to json.loads so far, in order
  extracted,   \* what _extract_json did: [exc, ret], exc = <<>> when it returned
  gop,         \* the function of the question pipeline that was called, "idle" if none
  gin,         \* its arguments and what its collaborators did
  gout,        \* what it returned or raised
  calls,       \* per call_tool invocation: its position, arguments, reader and result
  clients      \* per httpx.AsyncClient: "none", "open" or "closed", and the calls that
               \* sent a request on it

ankiVars == <<pc, wide, linesRead, outcome, stdout, exitReason>>

notionVars ==
  <<npc, limit, total, all_results, next_cursor, requests, responses, shortLeft, result>>

extractVars == <<epc, text, matches, tried, extracted>>

pipelineVars == <<gop, gin, gout>>

toolVars == <<calls, clients>>

\* what the actions of one component leave alone
notAnkiVars == <<notionVars, extractVars, pipelineVars, toolVars>>
notNotionVars == <<ankiVars, extractVars, pipelineVars, toolVars>>
notExtractVars == <<ankiVars, notionVars, pipelineVars, toolVars>>
notPipelineVars == <<ankiVars, notionVars, extractVars, toolVars>>
notToolVars == <<ankiVars, notionVars, extractVars, pipelineVars>>

vars == <<ankiVars, notionVars, extractVars, pipelineVars, toolVars>>

NoCursor == -1

AnkiInit ==
  /\ pc = "start"
  /\ wide = FALSE
  /\ linesRead = <<>>
  /\ outcome = <<>>
  /\ stdout = <<>>
  /\ exitReason = "none"

NotionInit ==
  /\ npc = "idle"
  /\ limit = 0
  /\ total = 0
  /\ all_results = <<>>
  /\ next_cursor = NoCursor
  /\ requests = <<>>
  /\ responses = <<>>
  /\ shortLeft = 0
  /\ result = "none"

NoValue == [kind |-> "none", members |-> <<>>]

ExtractInit ==
  /\ epc = "idle"
  /\ text = <<>>
  /\ matches = <<>>
  /\ tried = <<>>
  /\ extracted = [exc |-> <<>>, ret |-> NoValue]

PipelineInit ==
  /\ gop = "idle"
  /\ gin = <<>>
  /\ gout = <<>>

ToolInit ==
  /\ calls = [c \in 1..MaxCalls |->
               [pc |-> "idle", name |-> "", arguments |-> [dict |-> FALSE], client |-> 0,
                stage |-> "", ops |-> <<>>, limit |-> 0, got |-> 0,
                prop |-> <<>>, result |-> [kind |-> "none", text |-> <<>>]]]
  /\ clients = [k \in 1..MaxCalls |-> [state |-> "none", users |-> {}]]

Init == AnkiInit /\ NotionInit /\ ExtractInit /\ PipelineInit /\ ToolInit

(***************************************************************************)
(* MCPAnkiServer.start                                                     *)
(***************************************************************************)
\* CheckConnection entering the loop although the check failed
CheckConnection_LoopAnyway ==
  /\ pc = "start"
  /\ \E connected \in BOOLEAN :
       IF connected
       THEN pc' = "read" /\ exitReason' = exitReason /\ wide' \in BOOLEAN
       ELSE pc' = "read" /\ exitReason' = "noconnect" /\ wide' = wide
  /\ UNCHANGED <<linesRead, outcome, stdout, notAnkiVars>>

\* check_connection: the version request succeeds with status 200, or it does not
CheckConnection ==
  /\ pc = "start"
  /\ \E connected \in BOOLEAN :
       IF connected
       THEN pc' = "read" /\ exitReason' = exitReason /\ wide' \in BOOLEAN
       ELSE pc' = "done" /\ exitReason' = "noconnect" /\ wide' = wide
  /\ UNCHANGED <<linesRead, outcome, stdout, notAnkiVars>>

\* sys.stdin.readline() returns a line
ReadLine ==
  /\ pc = "read"
  /\ Len(linesRead) < (IF wide THEN 1 ELSE MaxLines)
  /\ \E line \in (IF wide THEN Lines ELSE CoreLines) :
       linesRead' = Append(linesRead, line)
  /\ pc' = "handle"
  /\ UNCHANGED <<wide, outcome, stdout, exitReason, notAnkiVars>>

\* sys.stdin.readline() returns "": end of input
ReadEof ==
  /\ pc = "read"
  /\ pc' = "done"
  /\ exitReason' = "eof"
  /\ UNCHANGED <<wide, linesRead, outcome, stdout, notAnkiVars>>

\* json.loads and handle_request on the line just read, remote calls included
HandleLine ==
  /\ pc = "handle"
  /\ \E env \in EnvsFor(linesRead[Len(linesRead)]) :
       outcome' = ProcessLine(linesRead[Len(linesRead)], env)
  /\ pc' = "write"
  /\ UNCHANGED <<wide, linesRead, stdout, exitReason, notAnkiVars>>

\* WriteResponse with the write missing from the JSONDecodeError clause
WriteResponse_SkipInvalid ==
  /\ pc = "write"
  /\ stdout' = IF outcome.except_ = "JSONDecodeError" THEN stdout
               ELSE Append(stdout, outcome.resp)
  /\ outcome' = <<>>
  /\ pc' = "read"
  /\ UNCHANGED <<wide, linesRead, exitReason, notAnkiVars>>

\* WriteResponse leaving the loop after an error response
WriteResponse_StopOnError ==
  /\ pc = "write"
  /\ stdout' = Append(stdout, outcome.resp)
  /\ outcome' = <<>>
  /\ pc' = IF outcome.resp.type = "error" THEN "done" ELSE "read"
  /\ UNCHANGED <<wide, linesRead, exitReason, notAnkiVars>>

\* sys.stdout.write(json.dumps(response) + "\n"); flush
WriteResponse ==
  /\ pc = "write"
  /\ stdout' = Append(stdout, outcome.resp)
  /\ outcome' = <<>>
  /\ pc' = "read"
  /\ UNCHANGED <<wide, linesRead, exitReason, notAnkiVars>>

\* KeyboardInterrupt, or an exception escaping the loop body: the outer except clauses
Interrupt ==
  /\ pc \in {"start", "read", "handle", "write"}
  /\ pc' = "done"
  /\ exitReason' = "exception"
  /\ UNCHANGED <<wide, linesRead, outcome, stdout, notAnkiVars>>

AnkiNext ==
  \/ CheckConnection
  \/ ReadLine
  \/ ReadEof
  \/ HandleLine
  \/ WriteResponse
  \/ Interrupt

AnkiSpec == Init /\ [][AnkiNext]_vars

(***************************************************************************)
(* call_tool("query_database") of the Notion server and the paged endpoint *)
(* it queries.  The database holds the items 1..total in the order the     *)
(* server serves them; a cursor is the number of items that precede the    *)
(* page it designates.                                                     *)
(***************************************************************************)
PageSize == 100

Limits == (0..(MaxOver + 1)) \cup ((PageSize - 1)..(PageSize + MaxOver))
            \cup ((2 * PageSize)..(2 * PageSize + MaxOver))

Totals == (0..MaxOver) \cup ((PageSize - 1)..(PageSize + MaxOver))
            \cup ((2 * PageSize + 1)..(2 * PageSize + MaxOver + 1))

\* QueryBody that never sends the cursor
QueryBody_NoCursor(page_size, start_cursor) == [page_size |-> page_size]

\* the JSON body NotionReader.query_database posts (filter and sorts left out)
QueryBody(page_size, start_cursor) ==
  IF start_cursor # NoCursor
  THEN [page_size |-> page_size, start_cursor |-> start_cursor]
  ELSE [page_size |-> page_size]

\* RequestSize without the min against what is left of the limit
RequestSize_Fixed(lim, accumulated) == PageSize

\* RequestSize asking for one item per page
RequestSize_One(lim, accumulated) == Min(1, lim - accumulated)

\* the page size call_tool asks for
RequestSize(lim, accumulated) == Min(PageSize, lim - accumulated)

\* the pages the server may serve for a query: at most page_size of the items after the
\* cursor, at least one when any is left; has_more pages carry a cursor, and the page
\* that exhausts the database may carry one too
ServerPages(query, tot, mayBeShort) ==
  LET start == Get(query, "start_cursor", 0)
      avail == Min(query.page_size, tot - start)
      counts == IF avail <= 0 THEN {0}
                ELSE {avail} \cup (IF mayBeShort THEN {1, avail - 1} \ {0} ELSE {})
  IN UNION {{[results |-> [i \in 1..k |-> start + i], next_cursor |-> c,
              short |-> (k < avail)] :
                c \in IF start + k < tot THEN {start + k} ELSE {NoCursor, start + k}} :
            k \in counts}

\* call_tool is invoked with name "query_database"
CallQueryDatabase ==
  /\ npc = "idle"
  /\ \E lim \in Limits, tot \in Totals, has_id \in BOOLEAN, short \in 0..MaxShort :
       /\ limit' = lim
       /\ total' = tot
       /\ shortLeft' = short
       /\ IF has_id
          THEN npc' = "loop" /\ result' = "none"
          ELSE npc' = "done" /\ result' = "error"
  /\ all_results' = <<>>
  /\ next_cursor' = NoCursor
  /\ requests' = <<>>
  /\ responses' = <<>>
  /\ UNCHANGED notNotionVars

\* the test of the while loop, and the request of the next page when it passes
LoopTest ==
  /\ npc = "loop"
  /\ IF Len(all_results) < limit
     THEN /\ requests' = Append(requests,
                                QueryBody(RequestSize(limit, Len(all_results)), next_cursor))
          /\ npc' = "await"
     ELSE /\ requests' = requests
          /\ npc' = "return"
  /\ UNCHANGED <<limit, total, all_results, next_cursor, responses, shortLeft, result,
                 notNotionVars>>

\* ReceivePage whose break tests the cursor only
ReceivePage_NoEmptyBreak ==
  /\ npc = "await"
  /\ \E page \in ServerPages(requests[Len(requests)], total, shortLeft > 0) :
       /\ all_results' = all_results \o page.results
       /\ next_cursor' = page.next_cursor
       /\ responses' = Append(responses,
                              [n |-> Len(page.results), next_cursor |-> page.next_cursor])
       /\ shortLeft' = IF page.short THEN shortLeft - 1 ELSE shortLeft
       /\ npc' = IF page.next_cursor = NoCursor THEN "return" ELSE "loop"
  /\ UNCHANGED <<limit, total, requests, result, notNotionVars>>

\* the response arrives: extend all_results, take its cursor, break or loop
ReceivePage ==
  /\ npc = "await"
  /\ \E page \in ServerPages(requests[Len(requests)], total, shortLeft > 0) :
       /\ all_results' = all_results \o page.results
       /\ next_cursor' = page.next_cursor
       /\ responses' = Append(responses,
                              [n |-> Len(page.results), next_cursor |-> page.next_cursor])
       /\ shortLeft' = IF page.short THEN shortLeft - 1 ELSE shortLeft
       /\ npc' = IF page.next_cursor = NoCursor \/ page.results = <<>>
                 THEN "return" ELSE "loop"
  /\ UNCHANGED <<limit, total, requests, result, notNotionVars>>

\* raise_for_status raises: the except clause of call_tool returns the error text
QueryFails ==
  /\ npc = "await"
  /\ npc' = "done"
  /\ result' = "error"
  /\ UNCHANGED <<limit, total, all_results, next_cursor, requests, responses, shortLeft,
                 notNotionVars>>

\* the results are formatted and returned
ReturnResults ==
  /\ npc = "return"
  /\ npc' = "done"
  /\ result' = "ok"
  /\ UNCHANGED <<limit, total, all_results, next_cursor, requests, responses, shortLeft,
                 notNotionVars>>

\* the call is over; the server waits for the next one
NextCall ==
  /\ npc = "done"
  /\ npc' = "idle"
  /\ limit' = 0
  /\ total' = 0
  /\ all_results' = <<>>
  /\ next_cursor' = NoCursor
  /\ requests' = <<>>
  /\ responses' = <<>>
  /\ shortLeft' = 0
  /\ result' = "none"
  /\ UNCHANGED notNotionVars

NotionNext ==
  \/ CallQueryDatabase
  \/ LoopTest
  \/ ReceivePage
  \/ QueryFails
  \/ ReturnResults
  \/ NextCall

NotionSpec == Init /\ [][NotionNext]_vars

\* the asyncio loop runs the coroutine on, and every awaited request ends (a response
\* or, at the latest at the 30 s timeout of the client, an exception)
NotionFairSpec ==
  /\ NotionSpec
  /\ WF_vars(LoopTest)
  /\ WF_vars(ReceivePage \/ QueryFails)
  /\ WF_vars(ReturnResults)

(***************************************************************************)
(* QuestionGeneratorAgent._extract_json.  A text is a sequence of tokens   *)
(* separated by whitespace:                                                *)
(*   "w"        a word of prose                                            *)
(*   "{" "}"    braces                                                     *)
(*   "a:"       the key "a" and its colon                                  *)
(*   "1"        the number 1                                               *)
(*   "fence"      a triple-backtick marker                                 *)
(*   "fence_json" a triple-backtick marker directly followed by json       *)
(* A JSON value is [kind, members]: the number 1, or an object with at     *)
(* most one member.                                                        *)
(***************************************************************************)
Tokens == {"w", "{", "}", "a:", "1", "fence", "fence_json"}

Fences == {"fence", "fence_json"}

\* prose, a fenced block tagged json that holds the object {"a": 1}, prose
ScenarioText == <<"w", "fence_json", "{", "a:", "1", "}", "fence", "w">>

Texts == UNION {[1..n -> Tokens] : n \in 0..MaxText} \cup {ScenarioText}

JsonNumber == [kind |-> "number", members |-> <<>>]

JsonObject(members) == [kind |-> "object", members |-> members]

ParseFailed == [ok |-> FALSE, next |-> 0, val |-> NoValue]

\* the JSON value that starts at token i of s, and the position after it
RECURSIVE ParseValue(_, _)
ParseValue(s, i) ==
  IF i > Len(s) THEN ParseFailed
  ELSE IF s[i] = "1" THEN [ok |-> TRUE, next |-> i + 1, val |-> JsonNumber]
  ELSE IF s[i] = "{" /\ i + 1 <= Len(s)
  THEN IF s[i + 1] = "}"
       THEN [ok |-> TRUE, next |-> i + 2, val |-> JsonObject(<<>>)]
       ELSE IF s[i + 1] = "a:"
       THEN LET v == ParseValue(s, i + 2)
            IN  IF v.ok /\ v.next <= Len(s) /\ s[v.next] = "}"
                THEN [ok |-> TRUE, next |-> v.next + 1,
                      val |-> JsonObject(<<[key |-> "a", value |-> v.val]>>)]
                ELSE ParseFailed
       ELSE ParseFailed
  ELSE ParseFailed

\* json.loads(s): the value when all of s is one JSON value, JSONDecodeError otherwise
json_loads(s) ==
  LET p == ParseValue(s, 1)
  IN  IF p.ok /\ p.next = Len(s) + 1 THEN [ok |-> TRUE, val |-> p.val]
      ELSE [ok |-> FALSE, val |-> NoValue]

\* the least index >= i of a token of s that is in toks, 0 when there is none
FindFrom(s, toks, i) ==
  IF \E j \in i..Len(s) : s[j] \in toks
  THEN CHOOSE j \in i..Len(s) : s[j] \in toks /\ \A k \in i..(j - 1) : s[k] \notin toks
  ELSE 0

\* the greatest index of a token of s that is in toks, 0 when there is none
FindLast(s, toks) ==
  IF \E j \in 1..Len(s) : s[j] \in toks
  THEN CHOOSE j \in 1..Len(s) : s[j] \in toks /\ \A k \in (j + 1)..Len(s) : s[k] \notin toks
  ELSE 0

\* re.findall(json_pattern, s) from token i on: the matches do not overlap, each
\* runs from a marker (with its json tag, if any) to the next marker
RECURSIVE re_findall(_, _)
re_findall(s, i) ==
  LET open == FindFrom(s, Fences, i)
      close == IF open = 0 THEN 0 ELSE FindFrom(s, Fences, open + 1)
  IN  IF close = 0 THEN <<>>
      ELSE <<SubSeq(s, open + 1, close - 1)>> \o re_findall(s, close + 1)

\* text[start:end+1] for the first opening brace, start, and the last closing brace,
\* end, as a one-element sequence; empty unless start >= 0 and end > start
BraceSubstring(s) ==
  LET start == FindFrom(s, {"{"}, 1)
      end == FindLast(s, {"}"})
  IN  IF start > 0 /\ end > start THEN <<SubSeq(s, start, end)>> ELSE <<>>

EmptyResponse == [exc |-> <<"Empty response">>, ret |-> NoValue]

ExtractFailed ==
  [exc |-> <<"Could not extract valid JSON from the response">>, ret |-> NoValue]

Returned(val) == [exc |-> <<>>, ret |-> val]

\* _extract_json(text) is called; an empty text raises at once
ExtractCall ==
  /\ epc = "idle"
  /\ \E t \in Texts :
       /\ text' = t
       /\ IF t = <<>>
          THEN epc' = "done" /\ extracted' = EmptyResponse
          ELSE epc' = "whole" /\ extracted' = extracted
  /\ matches' = <<>>
  /\ tried' = <<>>
  /\ UNCHANGED notExtractVars

\* json.loads(text); on JSONDecodeError the fenced blocks are collected
TryWhole ==
  /\ epc = "whole"
  /\ tried' = Append(tried, text)
  /\ IF json_loads(text).ok
     THEN epc' = "done" /\ extracted' = Returned(json_loads(text).val) /\ matches' = matches
     ELSE epc' = "blocks" /\ extracted' = extracted /\ matches' = re_findall(text, 1)
  /\ UNCHANGED <<text, notExtractVars>>

\* TryBlock taking the matches from the last to the first
TryBlock_LastFirst ==
  /\ epc = "blocks"
  /\ matches # <<>>
  /\ tried' = Append(tried, matches[Len(matches)])
  /\ IF json_loads(matches[Len(matches)]).ok
     THEN epc' = "done" /\ extracted' = Returned(json_loads(matches[Len(matches)]).val)
     ELSE epc' = "blocks" /\ extracted' = extracted
  /\ matches' = SubSeq(matches, 1, Len(matches) - 1)
  /\ UNCHANGED <<text, notExtractVars>>

\* one round of the loop over the matches: json.loads(match.strip())
TryBlock ==
  /\ epc = "blocks"
  /\ matches # <<>>
  /\ tried' = Append(tried, Head(matches))
  /\ IF json_loads(Head(matches)).ok
     THEN epc' = "done" /\ extracted' = Returned(json_loads(Head(matches)).val)
     ELSE epc' = "blocks" /\ extracted' = extracted
  /\ matches' = Tail(matches)
  /\ UNCHANGED <<text, notExtractVars>>

\* TryBraces giving up without looking for braces
TryBraces_NoFallback ==
  /\ epc = "blocks"
  /\ matches = <<>>
  /\ tried' = tried
  /\ extracted' = ExtractFailed
  /\ epc' = "done"
  /\ UNCHANGED <<text, matches, notExtractVars>>

\* after the loop: the text from the first opening brace to the last closing brace,
\* then the ValueError
TryBraces ==
  /\ epc = "blocks"
  /\ matches = <<>>
  /\ LET sub == BraceSubstring(text)
     IN  IF sub = <<>>
         THEN tried' = tried /\ extracted' = ExtractFailed
         ELSE /\ tried' = Append(tried, sub[1])
              /\ extracted' = IF json_loads(sub[1]).ok THEN Returned(json_loads(sub[1]).val)
                              ELSE ExtractFailed
  /\ epc' = "done"
  /\ UNCHANGED <<text, matches, notExtractVars>>

\* the caller takes the outcome; the next call starts afresh
ExtractReturn ==
  /\ epc = "done"
  /\ epc' = "idle"
  /\ text' = <<>>
  /\ matches' = <<>>
  /\ tried' = <<>>
  /\ extracted' = [exc |-> <<>>, ret |-> NoValue]
  /\ UNCHANGED notExtractVars

ExtractNext ==
  \/ ExtractCall
  \/ TryWhole
  \/ TryBlock
  \/ TryBraces
  \/ ExtractReturn

ExtractSpec == Init /\ [][ExtractNext]_vars

(***************************************************************************)
(* The functions of the question pipeline, each called on its own: the     *)
(* schema validation of one question, generate_questions, generate and     *)
(* convert_to_anki_cards.                                                  *)
(***************************************************************************)
\* the values of correct_answer explored
AnswerLetters == {"A", "B", "C", "D", "E", "a", ""}

\* the raw question mappings handed to validation: every number of options up to
\* MaxOptions, every letter, and mappings with a field missing
QuestionInputs ==
  {Q(id, t, ca, n) : id \in {1, 2}, t \in {"multiple_choice", "long_answer"},
                     ca \in AnswerLetters, n \in 0..MaxOptions}
  \cup {[id |-> 1, question |-> "What?", correct_answer |-> "A"],
        [id |-> 1, question |-> "What?", options |-> <<"option", "option">>],
        [id |-> 1, question |-> "What?", options |-> [i \in 1..4 |-> "option"],
         correct_answer |-> "B"]}

\* the questions of the replies of the question assistant
RawQuestions ==
  {Q(1, "multiple_choice", "A", 4), Q(2, "multiple_choice", "C", 4),
   Q(3, "multiple_choice", "B", 4), Q(1, "multiple_choice", "E", 4),
   Q(2, "multiple_choice", "B", 3), Q(3, "long_answer", "D", 4),
   [id |-> 2, question |-> "What?", options |-> [i \in 1..4 |-> "option"],
    correct_answer |-> "D"],
   [id |-> 1, question |-> "What?", correct_answer |-> "A"]}

RawQuestionLists == UNION {[1..n -> RawQuestions] : n \in 0..MaxQuestions}

\* what the chat with the question assistant produced: no reply, a reply without
\* braces, a reply that is not JSON, or a JSON object with or without its keys
QuestionReplies ==
  {[DefaultEnv EXCEPT !.qReply = q] : q \in {"throws", "nojson", "badjson"}}
  \cup {[DefaultEnv EXCEPT !.qJson = [topic |-> "T", questions |-> l]] :
          l \in RawQuestionLists}
  \cup {[DefaultEnv EXCEPT !.qJson = [questions |-> l]] :
          l \in {<<>>, <<Q(1, "multiple_choice", "A", 4)>>}}
  \cup {[DefaultEnv EXCEPT !.qJson = [topic |-> "T"]]}

\* generate_questions(topic, num_questions), chat included
CallGenerateQuestions ==
  /\ gop = "idle"
  /\ \E env \in QuestionReplies :
       /\ gin' = env
       /\ gout' = generate_questions("T", MaxQuestions, env)
  /\ gop' = "generate_questions"
  /\ UNCHANGED notPipelineVars

\* what the chat with the answer assistant produced after the reply e of the question
\* assistant: no reply, a reply without braces, a reply that is not JSON, a JSON
\* object that is not an AnswersOutput, or an AnswersOutput
AnswerReplies(e) ==
  {[e EXCEPT !.aReply = a] : a \in {"throws", "nojson", "badjson"}}
  \cup {[e EXCEPT !.aJson = j] :
          j \in {[topic |-> "T", answers |-> <<A(1, "A"), A(2, "C")>>],
                 [topic |-> "T"]}}

\* generate(topic, num_questions, save), both chats included
CallGenerate ==
  /\ gop = "idle"
  /\ \E e \in QuestionReplies, save \in BOOLEAN :
       \E env \in AnswerReplies(e) :
         /\ gin' = [env |-> env, save |-> save,
                    did |-> GenerateCalls(generate("T", MaxQuestions, save, env), save)]
         /\ gout' = generate("T", MaxQuestions, save, env)
  /\ gop' = "generate"
  /\ UNCHANGED notPipelineVars

\* the question and answer records handed to convert_to_anki_cards
CardQuestions ==
  {Q(1, "multiple_choice", "A", 4), Q(1, "multiple_choice", "B", 4),
   Q(2, "long_answer", "C", 4), Q(2, "multiple_choice", "E", 4), Q(3, "essay", "A", 4)}

CardAnswers ==
  {A(1, "A"), A(1, "C"), A(2, "option"), A(2, "B"), A(3, "essay"),
   [id |-> 1, answer |-> "B"]}

\* convert_to_anki_cards(questions_data, answers_data)
CallConvert ==
  /\ gop = "idle"
  /\ \E qs \in UNION {[1..n -> CardQuestions] : n \in 0..MaxCards},
        as \in UNION {[1..n -> CardAnswers] : n \in 0..MaxCards} :
       /\ gin' = [questions_data |-> [topic |-> "T", questions |-> qs],
                  answers_data |-> [topic |-> "T", answers |-> as]]
       /\ gout' = convert_to_anki_cards([topic |-> "T", questions |-> qs],
                                        [topic |-> "T", answers |-> as])
  /\ gop' = "convert_to_anki_cards"
  /\ UNCHANGED notPipelineVars

\* MultipleChoiceQuestion.model_validate on one raw mapping
ValidateQuestion ==
  /\ gop = "idle"
  /\ \E data \in QuestionInputs :
       /\ gin' = data
       /\ gout' = MultipleChoiceQuestion(data)
  /\ gop' = "model_validate"
  /\ UNCHANGED notPipelineVars

\* format_multiple_choice(question_data) on a mapping that has the keys it reads,
\* whether it would validate or not
FormatQuestion ==
  /\ gop = "idle"
  /\ \E data \in {q \in QuestionInputs : HasKey(q, "options") /\ HasKey(q, "correct_answer")} :
       /\ gin' = data
       /\ gout' = format_multiple_choice(data)
  /\ gop' = "format_multiple_choice"
  /\ UNCHANGED notPipelineVars

\* the caller takes the outcome
PipelineReturn ==
  /\ gop # "idle"
  /\ gop' = "idle"
  /\ gin' = <<>>
  /\ gout' = <<>>
  /\ UNCHANGED notPipelineVars

PipelineNext ==
  \/ ValidateQuestion
  \/ CallGenerateQuestions
  \/ CallGenerate
  \/ CallConvert
  \/ FormatQuestion
  \/ PipelineReturn

PipelineSpec == Init /\ [][PipelineNext]_vars

(***************************************************************************)
(* The AnkiConnect client and the handlers that loop over it, each called  *)
(* on its own with the replies AnkiConnect gives.                          *)
(***************************************************************************)
\* the sequences of up to n elements of S
SeqsUpTo(S, n) == UNION {[1..m -> S] : m \in 0..n}

\* add_card(front, back, deck_name)
CallAddCard ==
  /\ gop = "idle"
  /\ \E d \in Outcomes, a \in Outcomes :
       /\ gin' = [DefaultEnv EXCEPT !.createDeck = d, !.addNote = <<a>>]
       /\ gout' = add_card("F", "B", "Deck",
                           [DefaultEnv EXCEPT !.createDeck = d, !.addNote = <<a>>], 1)
  /\ gop' = "add_card"
  /\ UNCHANGED notPipelineVars

\* get_cards(query, limit): findCards reports up to MaxFound card ids
CallGetCards ==
  /\ gop = "idle"
  /\ \E f \in Outcomes, c \in Outcomes, n \in 0..MaxFound, num \in 0..(MaxFound + 1) :
       /\ gin' = [env |-> [DefaultEnv EXCEPT !.findCards = f, !.cardsInfo = c,
                                              !.found = [i \in 1..n |-> i]],
                  limit |-> num]
       /\ gout' = get_cards("is:due", num,
                            [DefaultEnv EXCEPT !.findCards = f, !.cardsInfo = c,
                                               !.found = [i \in 1..n |-> i]])
  /\ gop' = "get_cards"
  /\ UNCHANGED notPipelineVars

\* the entries of the answers of update_cards: complete, or without cardId or ease
AnswerEntries == {[cardId |-> 7, ease |-> 3], [cardId |-> 8, ease |-> 1], [cardId |-> 9],
                  [ease |-> 2]}

\* _handle_update_cards(params) with a list of up to MaxAnswers answers
CallUpdateCards ==
  /\ gop = "idle"
  /\ \E answers \in SeqsUpTo(AnswerEntries, MaxAnswers),
        o \in {<<>>, <<"error">>, <<"ok", "reqfail">>} :
       /\ gin' = [answers |-> answers, env |-> [DefaultEnv EXCEPT !.answerCard = o]]
       /\ gout' = _handle_update_cards(Dict([answers |-> answers]),
                                       [DefaultEnv EXCEPT !.answerCard = o])
  /\ gop' = "update_cards"
  /\ UNCHANGED notPipelineVars

\* the questions the question assistant may reply with to generate_cards_from_topic:
\* every one validates; type is any string
TopicQuestions ==
  {Q(1, "multiple_choice", "A", 4), Q(2, "long_answer", "C", 4), Q(3, "essay", "B", 4)}

\* _handle_generate_cards(params) with a topic: both chats and every addNote included
CallGenerateCards ==
  /\ gop = "idle"
  /\ \E qs \in SeqsUpTo(TopicQuestions, MaxCards),
        a \in {"throws", "nojson", "badjson", "json"},
        n \in SeqsUpTo(Outcomes, MaxCards) :
       /\ gin' = [DefaultEnv EXCEPT !.qJson = [topic |-> "T", questions |-> qs],
                                    !.aReply = a, !.addNote = n]
       /\ gout' = _handle_generate_cards(
                    Dict([topic |-> "T"]),
                    [DefaultEnv EXCEPT !.qJson = [topic |-> "T", questions |-> qs],
                                       !.aReply = a, !.addNote = n])
  /\ gop' = "generate_cards_from_topic"
  /\ UNCHANGED notPipelineVars

ConnectorNext ==
  \/ CallAddCard
  \/ CallGetCards
  \/ CallUpdateCards
  \/ CallGenerateCards
  \/ PipelineReturn

ConnectorSpec == Init /\ [][ConnectorNext]_vars

(***************************************************************************)
(* call_tool of the Notion server, any tool, with up to MaxCalls calls in  *)
(* flight at once: a call runs from one await to the next, and the event   *)
(* loop may run another call in between.  A JSON null is <<>>, a JSON      *)
(* value that may be null is <<>> or <<value>>, a JSON list is a sequence. *)
(***************************************************************************)
ToolNames ==
  {"list_databases", "get_database_schema", "query_database", "get_page_content",
   "search_notion", "delete_page"}

\* a limit argument that int() accepts, and one it rejects
IntArg(n) == [int |-> TRUE, v |-> n]
NotAnInt == [int |-> FALSE, v |-> 0]

ArgumentsFor(name) ==
  CASE name = "get_database_schema" ->
         {NotADict, Dict(EmptyDict), Dict([database_id |-> "db"])}
    [] name = "query_database" ->
         {NotADict, Dict(EmptyDict), Dict([database_id |-> "db"]),
          Dict([database_id |-> "db", limit |-> IntArg(0)]),
          Dict([database_id |-> "db", limit |-> IntArg(1)]),
          Dict([database_id |-> "db", limit |-> NotAnInt])}
    [] name = "get_page_content" ->
         {NotADict, Dict(EmptyDict), Dict([page_id |-> "pg"])}
    [] name = "search_notion" ->
         {NotADict, Dict([query |-> "q"]), Dict([query |-> "q", limit |-> NotAnInt])}
    [] OTHER -> {Dict(EmptyDict)}

\* the requests of NotionReader
SearchRequest == [method |-> "POST", path |-> "/search"]
QueryDatabaseRequest == [method |-> "POST", path |-> "/databases/{id}/query"]
GetDatabaseRequest == [method |-> "GET", path |-> "/databases/{id}"]
GetBlockChildrenRequest == [method |-> "GET", path |-> "/blocks/{id}/children"]
\* get_page updating the page instead of fetching it
GetPageRequest_Patch == [method |-> "PATCH", path |-> "/pages/{id}"]
GetPageRequest == [method |-> "GET", path |-> "/pages/{id}"]

RequestOf(stage) ==
  CASE stage = "search" -> SearchRequest
    [] stage = "query_database" -> QueryDatabaseRequest
    [] stage = "get_database" -> GetDatabaseRequest
    [] stage = "get_page" -> GetPageRequest
    [] OTHER -> GetBlockChildrenRequest

\* the property values a Notion page or database row may carry
PropertyValues ==
  {[type |-> "title", title |-> <<>>],
   [type |-> "title", title |-> <<[plain_text |-> "Hello"], [plain_text |-> "World"]>>],
   [type |-> "rich_text", rich_text |-> <<>>],
   [type |-> "rich_text", rich_text |-> <<[plain_text |-> "Some"], [plain_text |-> "text"]>>],
   [type |-> "number", number |-> <<3>>],
   [type |-> "select", select |-> <<>>],
   [type |-> "select", select |-> <<[name |-> "Red"]>>],
   [type |-> "multi_select", multi_select |-> <<[name |-> "x"], [name |-> "y"]>>],
   [type |-> "date", date |-> <<>>],
   [type |-> "date", date |-> <<[start |-> "2024-01-01"]>>],
   [type |-> "checkbox", checkbox |-> <<TRUE>>],
   [type |-> "url", url |-> <<"https://example.org">>]}

\* the chain of lines 383-401, in query_database
ProjectProperty(prop_value) ==
  IF prop_value.type = "title"
  THEN IF prop_value.title # <<>> THEN prop_value.title[1].plain_text ELSE ""
  ELSE IF prop_value.type = "rich_text"
  THEN IF prop_value.rich_text # <<>> THEN prop_value.rich_text[1].plain_text ELSE ""
  ELSE IF prop_value.type = "number" THEN prop_value.number
  ELSE IF prop_value.type = "select"
  THEN IF prop_value.select # <<>> THEN prop_value.select[1].name ELSE <<>>
  ELSE IF prop_value.type = "multi_select"
  THEN [i \in 1..Len(prop_value.multi_select) |-> prop_value.multi_select[i].name]
  ELSE IF prop_value.type = "date"
  THEN IF prop_value.date # <<>> THEN prop_value.date[1].start ELSE <<>>
  ELSE IF prop_value.type = "checkbox" THEN prop_value.checkbox
  ELSE prop_value

\* ProjectPageProperty giving a page without title the title "Untitled"
ProjectPageProperty_Untitled(prop_value) ==
  IF prop_value.type = "title" /\ prop_value.title = <<>> THEN "Untitled"
  ELSE ProjectProperty(prop_value)

\* the chain of lines 435-452, in get_page_content
ProjectPageProperty(prop_value) ==
  IF prop_value.type = "title"
  THEN IF prop_value.title # <<>> THEN prop_value.title[1].plain_text ELSE ""
  ELSE IF prop_value.type = "rich_text"
  THEN IF prop_value.rich_text # <<>> THEN prop_value.rich_text[1].plain_text ELSE ""
  ELSE IF prop_value.type = "number" THEN prop_value.number
  ELSE IF prop_value.type = "select"
  THEN IF prop_value.select # <<>> THEN prop_value.select[1].name ELSE <<>>
  ELSE IF prop_value.type = "multi_select"
  THEN [i \in 1..Len(prop_value.multi_select) |-> prop_value.multi_select[i].name]
  ELSE IF prop_value.type = "date"
  THEN IF prop_value.date # <<>> THEN prop_value.date[1].start ELSE <<>>
  ELSE IF prop_value.type = "checkbox" THEN prop_value.checkbox
  ELSE prop_value

\* the blocks of a page, and their simplified form (lines 456-495)
BlockLists ==
  {<<>>,
   <<[type |-> "paragraph", rich_text |-> <<[plain_text |-> "Hello"], [plain_text |-> "World"]>>],
     [type |-> "divider", rich_text |-> <<>>]>>}

FormatBlock(block) ==
  IF block.type = "paragraph"
  THEN [type |-> block.type,
        text |-> [i \in 1..Len(block.rich_text) |-> block.rich_text[i].plain_text]]
  ELSE [type |-> block.type]

\* the text of the TextContent the except clause returns
ErrorText(message) ==
  <<"Error:">> \o message
  \o <<"Please make sure your Notion integration is properly set up and has appropriate permissions.">>

NoResult == [kind |-> "none", text |-> <<>>]
TextResult(content) == [kind |-> "text", text |-> content]
ErrorResult(message) == [kind |-> "error", text |-> ErrorText(message)]
RaisedResult(message) == [kind |-> "raised", text |-> message]

IdleCall ==
  [pc |-> "idle", name |-> "", arguments |-> NotADict, client |-> 0, stage |-> "",
   ops |-> <<>>, limit |-> 0, got |-> 0, prop |-> <<>>, result |-> NoResult]

NoneTypeGet == <<"'NoneType' object has no attribute 'get'">>

\* the limit of query_database and search_notion: int(arguments.get("limit", 100))
LimitOf(arguments) == Get(arguments.d, "limit", IntArg(PageSize))

\* call_tool from the try to its first await: [exc, stage, limit, done]; done when
\* the tool returns without any request
Begin(name, arguments) ==
  LET fail(message) == [exc |-> message, stage |-> "", limit |-> 0, done |-> FALSE]
      await(stage, lim) == [exc |-> <<>>, stage |-> stage, limit |-> lim, done |-> FALSE]
  IN  CASE name = "list_databases" -> await("search", 0)
        [] name = "get_database_schema" ->
             IF ~arguments.dict THEN fail(NoneTypeGet)
             ELSE IF ~HasKey(arguments.d, "database_id") THEN fail(<<"Database ID is required">>)
             ELSE await("get_database", 0)
        [] name = "query_database" ->
             IF ~arguments.dict THEN fail(NoneTypeGet)
             ELSE IF ~LimitOf(arguments).int
             THEN fail(<<"invalid literal for int() with base 10">>)
             ELSE IF ~HasKey(arguments.d, "database_id") THEN fail(<<"Database ID is required">>)
             ELSE IF LimitOf(arguments).v <= 0
             THEN [exc |-> <<>>, stage |-> "", limit |-> LimitOf(arguments).v, done |-> TRUE]
             ELSE await("query_database", LimitOf(arguments).v)
        [] name = "get_page_content" ->
             IF ~arguments.dict THEN fail(NoneTypeGet)
             ELSE IF ~HasKey(arguments.d, "page_id") THEN fail(<<"Page ID is required">>)
             ELSE await("get_page", 0)
        [] name = "search_notion" ->
             IF ~arguments.dict THEN fail(NoneTypeGet)
             ELSE IF ~LimitOf(arguments).int
             THEN fail(<<"invalid literal for int() with base 10">>)
             ELSE await("search", LimitOf(arguments).v)
        [] OTHER -> fail(<<"Unknown tool:", name>>)

\* NotionReader.client handing every reader one client of the module
ClientFor_Shared(c, reader_client) == 1

\* NotionReader.client: the client of this reader, created at its first use; the
\* client created by call c is numbered c
ClientFor(c, reader_client) == IF reader_client = 0 THEN c ELSE reader_client

\* the reader of call c sends the request of the stage on its client
Send(call, c, stage) ==
  [call EXCEPT !.pc = "await", !.stage = stage,
               !.client = ClientFor(c, call.client),
               !.ops = Append(call.ops, RequestOf(stage))]

Opened(c, call) ==
  [k \in DOMAIN clients |->
     IF k = ClientFor(c, call.client)
     THEN [state |-> "open", users |-> clients[k].users \cup {c}]
     ELSE clients[k]]

\* the call has built its result res: of its frame, what the rest of call_tool reads
\* is the result and the client of its reader; the requests sent and the property
\* returned are kept for the record
Built(call, res) ==
  [call EXCEPT !.result = res, !.name = "", !.arguments = NotADict, !.stage = "",
               !.limit = 0, !.got = 0]

\* call_tool(name, arguments) is entered and runs to its first await, or to its end
\* when there is none; NOTION_API_KEY is configured or not
ToolCall(c) ==
  /\ calls[c].pc = "idle"
  /\ \E name \in ToolNames :
       \/ \* NotionReader() raises ValueError before the try: no key configured
          /\ calls' = [calls EXCEPT ![c] =
               [Built([IdleCall EXCEPT !.name = name], RaisedResult(
                  <<"NOTION_API_KEY not found in environment variables or .env file">>))
                  EXCEPT !.pc = "done"]]
          /\ clients' = clients
       \/ \E arguments \in ArgumentsFor(name) :
            LET entered == [IdleCall EXCEPT !.name = name, !.arguments = arguments]
                b == Begin(name, arguments)
            IN  IF b.exc # <<>>
                THEN /\ calls' = [calls EXCEPT ![c] =
                         [Built(entered, ErrorResult(b.exc)) EXCEPT !.pc = "done"]]
                     /\ clients' = clients
                ELSE IF b.done
                THEN /\ calls' = [calls EXCEPT ![c] =
                         [Built(entered, TextResult(<<>>)) EXCEPT !.pc = "done"]]
                     /\ clients' = clients
                ELSE /\ calls' = [calls EXCEPT ![c] =
                            Send([entered EXCEPT !.limit = b.limit], c, b.stage)]
                     /\ clients' = Opened(c, entered)
  /\ UNCHANGED notToolVars

\* the rows of query_database as returned: lines 379-408
FormatRows(n, prop_value) ==
  [i \in 1..n |-> [id |-> i, properties |-> [P |-> ProjectProperty(prop_value)]]]

\* the page of get_page_content as returned: lines 432-503
FormatPage(prop_value, blocks) ==
  [id |-> "pg", properties |-> [P |-> ProjectPageProperty(prop_value)],
   content |-> [i \in 1..Len(blocks) |-> FormatBlock(blocks[i])]]

\* the bodies the server returns for a page and its blocks, and the property the rows
\* of a database of n rows carry: every property value is explored on a page without
\* blocks and on a database of one row
PageBodies ==
  {[prop |-> p, blocks |-> <<>>] : p \in PropertyValues}
  \cup {[prop |-> [type |-> "title", title |-> <<>>], blocks |-> b] : b \in BlockLists}

RowProperties(n) == IF n = 1 THEN PropertyValues ELSE {[type |-> "title", title |-> <<>>]}

\* the call goes to its finally clause with the result res
Closing(call, res) == [Built(call, res) EXCEPT !.pc = "closing"]

\* the property prop_value came back to the call in a row or in a page
Returning(call, prop_value) == <<[tool |-> call.name, value |-> prop_value]>>

\* the awaited request of call c ends: with an error status or a transport error
\* (raise_for_status, timeout), or with a body.  The call runs on to its next await:
\* the next request, or the close of its client after the result or the error text is
\* built; a body that lacks a key the formatting reads makes the formatting raise.
\* A database holds up to MaxItems rows and the server sends them one a page, each
\* page but its last with a next_cursor.
Respond(c) ==
  /\ calls[c].pc = "await"
  /\ LET call == calls[c]
     IN  \/ calls' = [calls EXCEPT ![c] = Closing(call, ErrorResult(<<"HTTPStatusError">>))]
         \/ /\ call.stage # "get_page"
            /\ calls' = [calls EXCEPT ![c] = Closing(call, ErrorResult(<<"KeyError">>))]
         \/ /\ call.stage = "get_page"
            /\ calls' = [calls EXCEPT ![c] = Send(call, c, "get_block_children")]
         \/ /\ call.stage = "get_block_children"
            /\ \E body \in PageBodies :
                 calls' = [calls EXCEPT ![c] =
                   [Closing(call, TextResult(FormatPage(body.prop, body.blocks)))
                      EXCEPT !.prop = Returning(call, body.prop)]]
         \/ /\ call.stage = "query_database"
            /\ \/ \* a page of one row with a next_cursor, and the limit not reached
                  /\ call.got + 1 < MaxItems
                  /\ call.got + 1 < call.limit
                  /\ calls' = [calls EXCEPT ![c] =
                       [Send(call, c, "query_database") EXCEPT !.got = call.got + 1]]
               \/ \* the last page: no next_cursor or the limit reached, with one
                  \* row, or with none when the database is empty
                  \E n \in (IF call.got = 0 THEN {0, 1} ELSE {1}) :
                    IF call.got + n = 0
                    THEN calls' = [calls EXCEPT ![c] = Closing(call, TextResult(<<>>))]
                    ELSE \E prop_value \in RowProperties(call.got + n) :
                           calls' = [calls EXCEPT ![c] =
                             [Closing(call, TextResult(FormatRows(call.got + n, prop_value)))
                                EXCEPT !.prop = Returning(call, prop_value)]]
         \/ /\ call.stage \in {"search", "get_database"}
            /\ calls' = [calls EXCEPT ![c] =
                 Closing(call, TextResult(<<call.stage, "formatted">>))]
  /\ clients' = clients
  /\ UNCHANGED notToolVars

\* finally: await reader.close(), then call_tool returns
CloseClient(c) ==
  /\ calls[c].pc = "closing"
  /\ clients' = [clients EXCEPT ![calls[c].client].state = "closed"]
  /\ calls' = [calls EXCEPT ![c].pc = "done", ![c].client = 0]
  /\ UNCHANGED notToolVars

ToolNext == \E c \in 1..MaxCalls : ToolCall(c) \/ Respond(c) \/ CloseClient(c)

ToolSpec == Init /\ [][ToolNext]_vars

(***************************************************************************)
(* Properties of the Anki transport loop and router                        *)
(***************************************************************************)
CurLine == linesRead[Len(linesRead)]

IsRequestOfKind(line, kinds) ==
  /\ line.json = "object"
  /\ Get(line.request, "type", "None") \in kinds

ResponseType(kind) == IF kind = "resource" THEN "resource_response" ELSE "tool_response"

IsErrorResponse(r) ==
  /\ HasKey(r, "error")
  /\ r.type = "error" \/ Get(r, "status", "none") = "error"

C2_HandlerExceptionBecomesErrorEnvelope ==
  (pc = "write" /\ outcome.hexc # <<>>) =>
    /\ outcome.except_ = "none"
    /\ outcome.resp = [type |-> ResponseType(CurLine.request.type), status |-> "error",
                       error |-> outcome.hexc]

C2_Witness ==
  /\ pc = "write"
  /\ outcome.hexc = KeyErrorResult
  /\ outcome.handler \in resource_handlers
  /\ outcome.resp.status = "error"

\* C3: a resource or tool request whose name has no handler of that kind is answered
\* with <kind>_response, status "error" and "Unknown <kind>: <name>", and neither a
\* handler nor a remote call is invoked.
C3_UnknownNameIsRejected ==
  (/\ pc = "write"
   /\ IsRequestOfKind(CurLine, {"resource", "tool"})
   /\ Get(CurLine.request, "name", "") \notin
        (IF CurLine.request.type = "resource" THEN resource_handlers ELSE tool_handlers))
  => /\ outcome.resp =
          [type |-> ResponseType(CurLine.request.type), status |-> "error",
           error |-> <<IF CurLine.request.type = "resource" THEN "Unknown resource:"
                       ELSE "Unknown tool:",
                       Get(CurLine.request, "name", "")>>]
     /\ outcome.handler = "none"
     /\ outcome.calls = <<>>

C3_Witness ==
  /\ pc = "write"
  /\ IsRequestOfKind(CurLine, {"tool"})
  /\ Get(CurLine.request, "name", "") = "unknown_tool"
  /\ outcome.resp = [type |-> "tool_response", status |-> "error",
                     error |-> <<"Unknown tool:", "unknown_tool">>]

\* C4: once the loop runs, a line that is not JSON, a JSON value that is not an object
\* and a request whose handler raises each get an error response, after which the loop
\* reads on; the loop is left only at end of input or through a top-level exception.
C4_LoopSurvivesBadLines ==
  [][/\ (pc = "handle" /\ pc' = "write" /\ (CurLine.json # "object" \/ outcome'.hexc # <<>>))
          => IsErrorResponse(outcome'.resp)
     /\ pc = "handle" => (pc' = "write" \/ (pc' = "done" /\ exitReason' = "exception"))
     /\ pc = "write" =>
          \/ pc' = "read" /\ stdout' = Append(stdout, outcome.resp)
          \/ pc' = "done" /\ exitReason' = "exception"
     /\ (pc \in {"read", "handle", "write"} /\ pc' = "done") =>
          \/ exitReason' = "eof" /\ pc = "read"
          \/ exitReason' = "exception"]_vars

C4_Witness ==
  /\ pc = "done"
  /\ exitReason = "eof"
  /\ Len(stdout) = 3
  /\ linesRead[1].json = "invalid"
  /\ linesRead[2].json = "nonobject"
  /\ IsRequestOfKind(linesRead[3], {"tool"})
  /\ \A k \in 1..3 : IsErrorResponse(stdout[k])

\* C5: every response written has a type "<kind>_response" or "error", a status
\* "success" or "error", a body when the status is success and an error when it is error.
C5_EveryResponseHasTypeStatusPayload ==
  \A k \in 1..Len(stdout) :
    /\ stdout[k].type \in {"resource_response", "tool_response", "manifest_response", "error"}
    /\ HasKey(stdout[k], "status")
    /\ stdout[k].status \in {"success", "error"}
    /\ stdout[k].status = "success" => HasKey(stdout[k], "body")
    /\ stdout[k].status = "error" => HasKey(stdout[k], "error")

\* an error arose while the tool request was handled: no such tool, the handler raised,
\* or the handler reported failure
ToolErrorArose(o) ==
  \/ o.handler = "none"
  \/ o.hexc # <<>>
  \/ /\ HasKey(o.resp, "body")
     /\ HasKey(o.resp.body, "success")
     /\ ~o.resp.body.success

\* C6: an error that arises while a tool request is handled is reported in the error
\* field of the response envelope.
C6_ToolErrorsInEnvelopeErrorField ==
  (pc = "write" /\ IsRequestOfKind(CurLine, {"tool"}) /\ ToolErrorArose(outcome))
    => HasKey(outcome.resp, "error")

(***************************************************************************)
(* Properties of the query_database pagination                             *)
(***************************************************************************)
CeilDiv(a, b) == (a + b - 1) \div b

RECURSIVE Served(_)
\* the number of items the first i responses carried
Served(i) == IF i = 0 THEN 0 ELSE Served(i - 1) + responses[i].n

\* a page that carried a cursor but fewer items than were asked for
ShortPageServed ==
  \E i \in 1..Len(responses) :
    responses[i].next_cursor # NoCursor /\ responses[i].n < requests[i].page_size

C8_ReturnsMinLimitTotalInOrder ==
  result = "ok" => all_results = [i \in 1..Min(limit, total) |-> i]

C8_Witness ==
  /\ result = "ok"
  /\ Len(requests) >= 3
  /\ total < limit
  /\ Len(all_results) = total

C9_OriginalBound == Len(requests) <= CeilDiv(limit, PageSize)

\* C9 as stated: the loop terminates and never issues more than ceil(limit / 100)
\* requests.
C9_TerminatesWithinCeilRequests ==
  /\ []C9_OriginalBound
  /\ (npc \in {"loop", "await"}) ~> (npc = "done")

C9_AmendedBound ==
  /\ Len(requests) <= limit
  /\ ~ShortPageServed => Len(requests) <= CeilDiv(limit, PageSize)

\* C9 amended: the loop terminates and issues at most limit requests, and at most
\* ceil(limit / 100) when every page that carried a cursor was full.
C9_TerminatesWithinLimitRequests ==
  /\ []C9_AmendedBound
  /\ (npc \in {"loop", "await"}) ~> (npc = "done")

C9_Witness ==
  /\ result = "ok"
  /\ ShortPageServed
  /\ Len(requests) > CeilDiv(limit, PageSize)
  /\ Len(all_results) = limit

\* C10: every request asks for min(100, limit - accumulated) items, between 1 and 100;
\* the first carries no cursor and each later one the next_cursor of the response
\* before it; a response that reached the limit, carried no cursor or carried no item
\* is followed by no request.
C10_RequestSizesAndCursors ==
  /\ Len(requests) <= Len(responses) + 1
  /\ \A i \in 1..Len(requests) :
       /\ requests[i].page_size = Min(PageSize, limit - Served(i - 1))
       /\ requests[i].page_size \in 1..PageSize
       /\ i = 1 => ~HasKey(requests[i], "start_cursor")
       /\ i > 1 =>
            /\ HasKey(requests[i], "start_cursor")
            /\ requests[i].start_cursor = responses[i - 1].next_cursor
            /\ responses[i - 1].next_cursor # NoCursor
            /\ responses[i - 1].n > 0
            /\ Served(i - 1) < limit

C10_Witness ==
  /\ result = "ok"
  /\ Len(requests) >= 3
  /\ responses[Len(responses)].n = 0
  /\ responses[Len(responses)].next_cursor # NoCursor
  /\ Len(all_results) < limit

(***************************************************************************)
(* Properties of _extract_json                                             *)
(***************************************************************************)
FenceAt(s) == {i \in 1..Len(s) : s[i] \in Fences}

\* the position of the n-th marker of s
NthFence(s, n) ==
  CHOOSE i \in FenceAt(s) : Cardinality({j \in FenceAt(s) : j <= i}) = n

\* the interiors of the fenced blocks of s in order of appearance: the k-th block lies
\* between the (2k-1)-th and the 2k-th marker
FencedBlocks(s) ==
  [k \in 1..(Cardinality(FenceAt(s)) \div 2) |->
     SubSeq(s, NthFence(s, 2 * k - 1) + 1, NthFence(s, 2 * k) - 1)]

\* the text from the first opening brace to the last closing brace, when the one
\* precedes the other
BraceCandidate(s) ==
  LET opens == {i \in 1..Len(s) : s[i] = "{"}
      closes == {i \in 1..Len(s) : s[i] = "}"}
  IN  IF \E i \in opens : \E j \in closes : i < j
      THEN <<SubSeq(s, CHOOSE i \in opens : \A k \in opens : i <= k,
                       CHOOSE j \in closes : \A k \in closes : k <= j)>>
      ELSE <<>>

\* what the three steps parse, in the order of the steps
Candidates(s) == <<s>> \o FencedBlocks(s) \o BraceCandidate(s)

\* C11: _extract_json hands to the parser, in this order, the whole text, the interior
\* of each fenced block in order of appearance, and the text from the first opening
\* brace to the last closing brace; it goes on to the next of these only when all it
\* tried before failed to parse, and it returns the value of the first that parses.
C11_StepsInOrderFirstSuccessWins ==
  (epc # "idle" /\ text # <<>>) =>
    LET c == Candidates(text)
    IN  /\ Len(tried) <= Len(c)
        /\ tried = SubSeq(c, 1, Len(tried))
        /\ \A i \in 1..(Len(tried) - 1) : ~json_loads(tried[i]).ok
        /\ epc = "done" =>
             IF \E k \in 1..Len(c) : json_loads(c[k]).ok
             THEN /\ tried # <<>>
                  /\ json_loads(tried[Len(tried)]).ok
                  /\ extracted = Returned(json_loads(tried[Len(tried)]).val)
             ELSE tried = c /\ extracted.exc # <<>>

\* the second of two fenced blocks is the first step that parses, and its value is returned
C11_Witness ==
  /\ epc = "done"
  /\ Len(tried) = 3
  /\ Len(FencedBlocks(text)) = 2
  /\ tried[3] = FencedBlocks(text)[2]
  /\ extracted.exc = <<>>
  /\ extracted.ret = JsonNumber

\* the spans <<i, j>> of s whose tokens are one well-formed JSON object
ObjectSpans(s) ==
  {sp \in (1..Len(s)) \X (1..Len(s)) :
     /\ sp[1] <= sp[2]
     /\ json_loads(SubSeq(s, sp[1], sp[2])).ok
     /\ json_loads(SubSeq(s, sp[1], sp[2])).val.kind = "object"}

\* those that are not inside another one
OuterObjectSpans(s) ==
  {sp \in ObjectSpans(s) :
     \A other \in ObjectSpans(s) :
       (other[1] <= sp[1] /\ sp[2] <= other[2]) => other = sp}

HoldsSingleObject(s) == Cardinality(OuterObjectSpans(s)) = 1

TheObjectSpan(s) == CHOOSE sp \in OuterObjectSpans(s) : TRUE

TheObject(s) == json_loads(SubSeq(s, TheObjectSpan(s)[1], TheObjectSpan(s)[2])).val

NoJsonSubstring(s) ==
  \A i \in 1..Len(s) : \A j \in i..Len(s) : ~json_loads(SubSeq(s, i, j)).ok

\* no brace of s lies outside its single object
NoBraceOutsideObject(s) ==
  \A i \in 1..Len(s) :
    s[i] \in {"{", "}"} => (TheObjectSpan(s)[1] <= i /\ i <= TheObjectSpan(s)[2])

\* no fenced block of s holds a JSON value other than its single object
NoOtherValueFenced(s) ==
  \A k \in 1..Len(FencedBlocks(s)) :
    json_loads(FencedBlocks(s)[k]).ok => json_loads(FencedBlocks(s)[k]).val = TheObject(s)

SignalsFailure == extracted.exc # <<>> /\ extracted.ret = NoValue

C13_ValidationEnforcesOptionsAndLetter ==
  gop = "model_validate" =>
    /\ (HasKey(gin, "options") /\ Len(gin.options) # 4) => gout.exc # <<>>
    /\ (HasKey(gin, "correct_answer") /\ gin.correct_answer \notin {"A", "B", "C", "D"})
         => gout.exc # <<>>
    /\ gout.exc = <<>> =>
         /\ gout.ret.options = gin.options
         /\ Len(gout.ret.options) = 4
         /\ gout.ret.correct_answer = gin.correct_answer

\* a question with five options and a valid letter is rejected for its options alone
C13_Witness ==
  /\ gop = "model_validate"
  /\ HasKey(gin, "options")
  /\ Len(gin.options) = 5
  /\ gin.correct_answer = "A"
  /\ gout.exc = <<"options: There must be exactly 4 options">>

\* every question of d has exactly 4 options and a correct_answer among A, B, C, D
AllQuestionsWellFormed(d) ==
  /\ HasKey(d, "questions")
  /\ \A i \in 1..Len(d.questions) :
       /\ HasKey(d.questions[i], "options")
       /\ Len(d.questions[i].options) = 4
       /\ HasKey(d.questions[i], "correct_answer")
       /\ d.questions[i].correct_answer \in {"A", "B", "C", "D"}

\* C14: generate_questions returns either a mapping with an "error" key or a record in
\* which every question has exactly 4 options and a correct_answer among A, B, C, D;
\* a record is returned only for a reply that held a JSON object, and it is that
\* object after schema validation, never the unvalidated reply.
C14_OnlyValidatedQuestionsReturned ==
  gop = "generate_questions" =>
    \/ HasKey(gout, "error")
    \/ /\ AllQuestionsWellFormed(gout)
       /\ gin.qReply = "json"
       /\ QuestionsValid(gin.qJson)
       /\ gout = QuestionsDump(gin.qJson)

\* a reply with three valid questions, the second without a type, comes back as the
\* validated record, the default type filled in
C14_Witness ==
  /\ gop = "generate_questions"
  /\ gin.qReply = "json"
  /\ ~HasKey(gout, "error")
  /\ Len(gout.questions) = 3
  /\ ~HasKey(gin.qJson.questions[2], "type")
  /\ gout.questions[2].type = "multiple_choice"

\* the question assistant produced a valid record with at least one question
QuestionsSucceeded(env) ==
  /\ env.qReply = "json"
  /\ QuestionsValid(env.qJson)
  /\ env.qJson.questions # <<>>

\* the chat with the answer assistant raised, its reply had no JSON object, or the
\* JSON did not parse or was not an AnswersOutput
AnswersFailed(env) ==
  \/ env.aReply \in {"throws", "nojson", "badjson"}
  \/ ~AnswersValid(env.aJson)

PlaceholderFor(q) ==
  [id |-> q.id, answer |-> q.correct_answer,
   explanation |-> <<"The correct answer is", q.correct_answer, ".">>]

SubstringOf(s, t) ==
  \/ s = t
  \/ s = "A" /\ t \in {"Answer:", "Additional notes:"}

\* the text of a card side contains the string s
ContainsText(side, s) == \E i \in 1..Len(side) : SubstringOf(s, side[i])

\* the positions of the questions that convert_to_anki_cards formats: those with an
\* answer record of their id and a supported type
FormattedAt(questions, answers) ==
  {i \in 1..Len(questions) :
     /\ questions[i].id \in {answers[j].id : j \in 1..Len(answers)}
     /\ questions[i].type \in {"multiple_choice", "long_answer"}}

\* the position of the question behind the k-th card
QuestionOfCard(questions, answers, k) ==
  CHOOSE i \in FormattedAt(questions, answers) :
    Cardinality({j \in FormattedAt(questions, answers) : j <= i}) = k

\* C16: for every question and answer record that convert_to_anki_cards formats into a
\* card, the front of the card contains the question text and the back of the card
\* contains the answer field of the answer record.
C16_CardHoldsQuestionAndAnswerText ==
  (gop = "convert_to_anki_cards" /\ gout.exc = <<>>) =>
    LET questions == gin.questions_data.questions
        answers == gin.answers_data.answers
    IN  \A k \in 1..Len(gout.cards) :
          LET question == questions[QuestionOfCard(questions, answers, k)]
          IN  /\ ContainsText(gout.cards[k].front, question.question)
              /\ ContainsText(gout.cards[k].back, AnswerFor(answers, question.id).answer)

(***************************************************************************)
(* Properties of call_tool of the Notion server                            *)
(***************************************************************************)
\* the value under the key named by the type tag
Payload(prop_value) == prop_value[prop_value.type]

\* the fixed table of the projection, by type tag
ProjectionTable(prop_value) ==
  CASE prop_value.type \in {"title", "rich_text"} ->
         IF Payload(prop_value) = <<>> THEN "" ELSE Payload(prop_value)[1].plain_text
    [] prop_value.type \in {"number", "checkbox"} -> Payload(prop_value)
    [] prop_value.type = "select" ->
         IF Payload(prop_value) = <<>> THEN <<>> ELSE Payload(prop_value)[1].name
    [] prop_value.type = "multi_select" ->
         [i \in 1..Len(Payload(prop_value)) |-> Payload(prop_value)[i].name]
    [] prop_value.type = "date" ->
         IF Payload(prop_value) = <<>> THEN <<>> ELSE Payload(prop_value)[1].start
    [] OTHER -> prop_value

\* call c returned rows or a page with a projected property
Projected(c) == calls[c].result.kind = "text" /\ calls[c].prop # <<>>

ProjectedValue(c) ==
  IF calls[c].prop[1].tool = "query_database" THEN calls[c].result.text[1].properties.P
  ELSE calls[c].result.text.properties.P

\* C17: the properties that query_database and get_page_content return are the
\* projection of the Notion property by its type tag: title and rich_text give the
\* first plain text or "", number and checkbox the value, select the name or None,
\* multi_select the list of names, date the start or None, and any other tag the raw
\* value unchanged; the two tools project every property value alike.
C17_PropertiesProjectedByTypeTag ==
  /\ \A c \in 1..MaxCalls :
       Projected(c) =>
         /\ calls[c].prop[1].tool = "query_database" =>
              \A i \in 1..Len(calls[c].result.text) :
                calls[c].result.text[i].properties.P = ProjectionTable(calls[c].prop[1].value)
         /\ calls[c].prop[1].tool = "get_page_content" =>
              calls[c].result.text.properties.P = ProjectionTable(calls[c].prop[1].value)
  /\ \A c1, c2 \in 1..MaxCalls :
       (Projected(c1) /\ Projected(c2)
          /\ calls[c1].prop[1].value = calls[c2].prop[1].value) =>
         ProjectedValue(c1) = ProjectedValue(c2)

\* a row and a page that carry the same untitled title property come back with the
\* same empty text
C17_Witness ==
  /\ calls[1].pc = "done"
  /\ calls[2].pc = "done"
  /\ calls[1].prop = <<[tool |-> "query_database", value |-> [type |-> "title", title |-> <<>>]]>>
  /\ calls[2].prop = <<[tool |-> "get_page_content", value |-> [type |-> "title", title |-> <<>>]]>>
  /\ calls[1].result.text[1].properties.P = ""
  /\ calls[2].result.text.properties.P = ""

\* C18: every call of a Notion tool, whatever its name, its arguments and the remote
\* failures, and also without a required id, with an unknown tool name or without an
\* API key, ends by returning a text (the result, or the error as text) and never by
\* raising, and the HTTP client of its reader is closed when it returns.
C18_FailuresReturnedAsTextClientClosed ==
  \A c \in 1..MaxCalls :
    calls[c].pc = "done" =>
      /\ calls[c].result.kind \in {"text", "error"}
      /\ calls[c].client = 0
      /\ \A k \in DOMAIN clients : c \in clients[k].users => clients[k].state = "closed"

\* the requests that read: database query, database fetch, page fetch, block-children
\* fetch and search
ReadOperations ==
  {[method |-> "POST", path |-> "/databases/{id}/query"],
   [method |-> "GET", path |-> "/databases/{id}"],
   [method |-> "GET", path |-> "/pages/{id}"],
   [method |-> "GET", path |-> "/blocks/{id}/children"],
   [method |-> "POST", path |-> "/search"]}

\* C19: the Notion integration only reads: every request a tool call sends is a
\* database query, a database fetch, a page fetch, a block-children fetch or a
\* search; none creates, updates or deletes.
C19_OnlyReadRequests ==
  \A c \in 1..MaxCalls :
    \A i \in 1..Len(calls[c].ops) : calls[c].ops[i] \in ReadOperations

\* get_page_content has fetched a page and its blocks while query_database has
\* queried twice
C19_Witness ==
  /\ calls[1].pc = "done"
  /\ Len(calls[1].ops) = 2
  /\ calls[1].ops[1].path = "/pages/{id}"
  /\ calls[1].ops[2].path = "/blocks/{id}/children"
  /\ calls[2].name = "query_database"
  /\ Len(calls[2].ops) = 2

\* call c has sent a request and not yet closed its client
InFlight(c) == calls[c].pc \in {"await", "closing"}

\* C20: with tool calls interleaved at their awaits, calls share no HTTP client: a
\* call in flight holds an open client that no other call holds or has sent a
\* request on, so no call uses or closes a client another call in flight is using.
C20_NoClientSharedBetweenCalls ==
  /\ \A c \in 1..MaxCalls :
       InFlight(c) =>
         /\ calls[c].client # 0
         /\ clients[calls[c].client].state = "open"
         /\ clients[calls[c].client].users = {c}
         /\ \A d \in 1..MaxCalls \ {c} : calls[d].client # calls[c].client
  /\ \A k \in DOMAIN clients : Cardinality(clients[k].users) <= 1

\* one call closes its client while another call is still awaiting a response
C20_Witness ==
  /\ calls[1].pc = "done"
  /\ clients[1].state = "closed"
  /\ clients[1].users = {1}
  /\ calls[2].pc = "await"
  /\ calls[2].client = 2
  /\ Len(calls[2].ops) = 2

(***************************************************************************)
(* Properties of generate, of the AnkiConnect client and of the handlers   *)
(***************************************************************************)
\* position of the first call of a collaborator in the calls made, 0 when it is not called
FirstCall(did, who) ==
  IF \E i \in 1..Len(did) : did[i] = who
  THEN CHOOSE i \in 1..Len(did) : did[i] = who /\ \A j \in 1..(i - 1) : did[j] # who
  ELSE 0

\* C23: in generate, the chat with the answer assistant is opened only after
\* generate_questions returned a validated list of questions that is not empty; when
\* generate_questions returns an error or an empty list, the answer assistant is not
\* called, nothing is saved and the answers returned are an error mapping.
C23_AnswersOnlyAfterValidatedQuestions ==
  gop = "generate" =>
    /\ FirstCall(gin.did, "answer_assistant") > 0 =>
         /\ FirstCall(gin.did, "question_assistant") = 1
         /\ FirstCall(gin.did, "answer_assistant") = 2
         /\ gin.env.qReply = "json"
         /\ QuestionsValid(gin.env.qJson)
         /\ gout[1] = QuestionsDump(gin.env.qJson)
         /\ Len(gout[1].questions) > 0
    /\ (HasKey(gout[1], "error") \/ Get(gout[1], "questions", <<>>) = <<>>) =>
         /\ gin.did = <<"question_assistant">>
         /\ HasKey(gout[2], "error")
    /\ FirstCall(gin.did, "save_to_files") > 0 => FirstCall(gin.did, "answer_assistant") > 0

\* generate with save on a reply that validates and holds no question: no answer
\* chat, no file, and the error of line 399
C23_Witness ==
  /\ gop = "generate"
  /\ gin.save
  /\ gin.env.qReply = "json"
  /\ gout[1] = [topic |-> "T", questions |-> <<>>]
  /\ gin.did = <<"question_assistant">>
  /\ gout[2] = [error |-> <<"No questions generated">>]

\* C21: add_card always posts createDeck for the deck before addNote; it returns the
\* note id when the addNote reply carries no error, and 0 when the reply carries an
\* error or the request fails; a failed request, of createDeck or of addNote, never
\* makes it raise.
C21_DeckCreatedBeforeNoteAdded ==
  gop = "add_card" =>
    /\ gout.calls = <<"createDeck", "addNote">>
    /\ gin.addNote[1] = "ok" => (gout.exc = <<>> /\ gout.ret = NoteId(1))
    /\ gin.addNote[1] \in {"error", "reqfail"} => (gout.exc = <<>> /\ gout.ret = 0)
    /\ gout.exc # <<>> => gin.addNote[1] = "raise"

\* the createDeck request fails and the note is added all the same
C21_Witness ==
  /\ gop = "add_card"
  /\ gin.createDeck = "reqfail"
  /\ gin.addNote = <<"ok">>
  /\ gout = [exc |-> <<>>, ret |-> 1, calls |-> <<"createDeck", "addNote">>]

\* C22: get_cards returns at most limit cards, for every limit that is not negative;
\* it returns an empty list when findCards or cardsInfo replies with an error or the
\* request fails, and it posts no cardsInfo when findCards yields no card id.
C22_AtMostLimitCards ==
  gop = "get_cards" =>
    /\ Len(gout.ret) <= gin.limit
    /\ gin.env.findCards \in {"error", "reqfail"} =>
         (gout.exc = <<>> /\ gout.ret = <<>> /\ gout.calls = <<"findCards">>)
    /\ (gout.calls = <<"findCards", "cardsInfo">>
          /\ gin.env.cardsInfo \in {"error", "reqfail"}) =>
         (gout.exc = <<>> /\ gout.ret = <<>>)
    /\ (gin.env.findCards = "ok" /\ gin.env.found = <<>>) =>
         (gout.ret = <<>> /\ gout.calls = <<"findCards">>)
    /\ (gin.env.findCards = "ok" /\ gin.env.cardsInfo = "ok") =>
         /\ Len(gout.ret) = Min(gin.limit, Len(gin.env.found))
         /\ \A i \in 1..Len(gout.ret) : gout.ret[i].cardId = gin.env.found[i]

\* three cards are found and two are asked for
C22_Witness ==
  /\ gop = "get_cards"
  /\ gin.limit = 2
  /\ gin.env.found = <<1, 2, 3>>
  /\ gout.calls = <<"findCards", "cardsInfo">>
  /\ Len(gout.ret) = 2
  /\ gout.ret[2].cardId = 2

\* the entry carries a cardId and an ease
Complete(answer) == HasKey(answer, "cardId") /\ HasKey(answer, "ease")

\* the number of the entries up to entry i that carry both
CompleteUpTo(answers, i) == Cardinality({j \in 1..i : Complete(answers[j])})

\* C28: update_cards returns one result for each entry of answers, in the order of
\* the entries; an entry without cardId or without ease gets a failure result and no
\* remote call, and the entries after it are processed all the same.
C28_OneResultPerAnswerInOrder ==
  gop = "update_cards" =>
    /\ gout.exc = <<>>
    /\ Len(gout.ret.results) = Len(gin.answers)
    /\ Len(gout.calls) = CompleteUpTo(gin.answers, Len(gin.answers))
    /\ \A i \in 1..Len(gin.answers) :
         IF Complete(gin.answers[i])
         THEN /\ gout.ret.results[i].cardId = gin.answers[i].cardId
              /\ gout.ret.results[i].success =
                   (OutcomeAt(gin.env.answerCard, CompleteUpTo(gin.answers, i)) = "ok")
         ELSE gout.ret.results[i] =
                [success |-> FALSE, error |-> <<"Missing cardId or ease">>]

\* an entry without ease, then a complete entry that is answered with one remote call
C28_Witness ==
  /\ gop = "update_cards"
  /\ gin.answers = <<[cardId |-> 9], [cardId |-> 7, ease |-> 3]>>
  /\ gin.env.answerCard = <<>>
  /\ gout.calls = <<"answerCard">>
  /\ gout.ret.results = <<[success |-> FALSE, error |-> <<"Missing cardId or ease">>],
                          [success |-> TRUE, cardId |-> 7]>>

\* the cards convert_to_anki_cards makes of what generate returns for the replies env
CardsGenerated(g) == convert_to_anki_cards(g[1], g[2]).cards

\* the handler returned its success result
ToolSucceeded(r) == r.exc = <<>> /\ r.ret.success

\* the cards whose addNote reply carried a note id
AddedOk(cards, outcomes) == {i \in 1..Len(cards) : OutcomeAt(outcomes, i) = "ok"}

\* the added cards are the cards of the set ok, in the order of the cards
AddedAre(added, cards, ok) ==
  /\ Len(added) = Cardinality(ok)
  /\ \A k \in 1..Len(added) :
       /\ added[k].cardId \in ok
       /\ added[k].front = cards[added[k].cardId].front
       /\ added[k].back = cards[added[k].cardId].back
       /\ k > 1 => added[k - 1].cardId < added[k].cardId

\* C25: in generate_cards_from_topic, whatever the single add_card calls return,
\* cards_added <= cards_generated, added_cards holds exactly the cards whose add
\* returned a positive id, in the order of generation, and an add that fails (returns
\* 0) does not keep the following cards from being tried.
C25_AddedCardsAreThoseWithAnId ==
  (gop = "generate_cards_from_topic" /\ ToolSucceeded(gout)) =>
    /\ gout.ret.cards_generated = Len(CardsGenerated(generate("T", 5, FALSE, gin)))
    /\ gout.ret.cards_added <= gout.ret.cards_generated
    /\ gout.ret.cards_added = Len(gout.ret.added_cards)
    /\ AddedAre(gout.ret.added_cards, CardsGenerated(generate("T", 5, FALSE, gin)),
                AddedOk(CardsGenerated(generate("T", 5, FALSE, gin)), gin.addNote))
    /\ gout.calls = [i \in 1..(2 * gout.ret.cards_generated) |->
                       IF i % 2 = 1 THEN "createDeck" ELSE "addNote"]

\* the add of the first of two cards fails and the second card is added
C25_Witness ==
  /\ gop = "generate_cards_from_topic"
  /\ gin.addNote = <<"error", "ok">>
  /\ ToolSucceeded(gout)
  /\ gout.ret.cards_generated = 2
  /\ gout.ret.cards_added = 1
  /\ gout.ret.added_cards[1].cardId = 2
  /\ gout.calls = <<"createDeck", "addNote", "createDeck", "addNote">>

\* generate took the path of its lines 408-426: the questions validated and the answer
\* chat ended in an error mapping, so every answer is a placeholder
PlaceholderPath(env) ==
  /\ env.qReply = "json"
  /\ QuestionsValid(env.qJson)
  /\ env.qJson.questions # <<>>
  /\ env.aReply \in {"throws", "nojson"}

\* C30: when the answers of generate_cards_from_topic are the placeholders, every
\* question has an answer of its id and so gives one card: cards_generated equals
\* the number of questions.
C30_OneCardPerQuestionWithPlaceholders ==
  (gop = "generate_cards_from_topic" /\ PlaceholderPath(gin) /\ ToolSucceeded(gout)) =>
    gout.ret.cards_generated = Len(gin.qJson.questions)

\* every question handed to convert_to_anki_cards is a question record: it validates
QuestionRecords(questions) ==
  \A i \in 1..Len(questions) : MultipleChoiceQuestion(questions[i]).exc = <<>>

\* the card has the form of the card of the question: a multiple-choice card shows the
\* question with its options and answers with the question's letter, a long-answer card
\* shows the question alone and answers with the answer record's text
CardIsOf(card, question, answers) ==
  IF question.type = "multiple_choice"
  THEN /\ card.front = <<question.question>> \o question.options
       /\ card.back[2] = question.correct_answer
  ELSE /\ card.front = <<question.question>>
       /\ card.back[1] = AnswerFor(answers, question.id).answer

\* C24: convert_to_anki_cards makes exactly one card, in the order of the questions,
\* of every question whose id has an answer record and whose type is multiple_choice
\* or long_answer, and none of any other question; so there are never more cards than
\* questions.
C24_OneCardPerAnsweredSupportedQuestion ==
  (gop = "convert_to_anki_cards" /\ QuestionRecords(gin.questions_data.questions)) =>
    /\ gout.exc = <<>>
    /\ Len(gout.cards) = Cardinality(FormattedAt(gin.questions_data.questions,
                                                 gin.answers_data.answers))
    /\ Len(gout.cards) <= Len(gin.questions_data.questions)
    /\ \A k \in 1..Len(gout.cards) :
         CardIsOf(gout.cards[k],
                  gin.questions_data.questions[
                    QuestionOfCard(gin.questions_data.questions,
                                   gin.answers_data.answers, k)],
                  gin.answers_data.answers)

\* of an answered question of another type and an answered long-answer question, only
\* the second gives a card
C24_Witness ==
  /\ gop = "convert_to_anki_cards"
  /\ Len(gin.questions_data.questions) = 2
  /\ gin.questions_data.questions[1].type = "essay"
  /\ gin.questions_data.questions[1].id \in AnswerIds(gin.answers_data.answers)
  /\ gin.questions_data.questions[2].type = "long_answer"
  /\ gout.exc = <<>>
  /\ Len(gout.cards) = 1
  /\ gout.cards[1].back[1] = "option"

\* C29: for every question that passes schema validation, the option index
\* format_multiple_choice computes from correct_answer lies in 0..3 and selects one of
\* the question's options; formatting it never fails with an index out of range.
C29_ValidatedQuestionIndexInRange ==
  (gop = "format_multiple_choice" /\ MultipleChoiceQuestion(gin).exc = <<>>) =>
    /\ LetterIndex(gin.correct_answer) \in 0..3
    /\ LetterIndex(gin.correct_answer) < Len(gin.options)
    /\ gout.exc = <<>>
    /\ gout.back[2] = gin.correct_answer
    /\ gout.back[3] = gin.options[LetterIndex(gin.correct_answer) + 1]

\* a validated question whose letter is the last, D, has been formatted
C29_Witness ==
  /\ gop = "format_multiple_choice"
  /\ MultipleChoiceQuestion(gin).exc = <<>>
  /\ gin.correct_answer = "D"
  /\ LetterIndex(gin.correct_answer) = 3
  /\ gout.exc = <<>>
  /\ gout.back[3] = gin.options[4]

(***************************************************************************)
(* Properties of the manifest and of the start of the Anki server          *)
(***************************************************************************)
Elems(s) == {s[i] : i \in 1..Len(s)}

\* the manifest body advertises the registered handler names, all of them and no other
AdvertisesHandlers(body) ==
  /\ Elems(body.resources) = resource_handlers
  /\ Elems(body.tools) = tool_handlers

\* C26: the manifest returned for a manifest request advertises exactly the names the
\* router dispatches: its resource names are the registered resource handlers and its
\* tool names the registered tool handlers, so a resource or tool request reaches a
\* handler exactly when its name is advertised.
C26_ManifestAdvertisesRoutedNames ==
  /\ \A i \in 1..Len(stdout) :
       stdout[i].type = "manifest_response" => AdvertisesHandlers(stdout[i].body)
  /\ (pc = "write" /\ IsRequestOfKind(CurLine, {"manifest"})) =>
       /\ outcome.resp.type = "manifest_response"
       /\ AdvertisesHandlers(outcome.resp.body)
  /\ (pc = "write" /\ IsRequestOfKind(CurLine, {"resource"})) =>
       (outcome.handler # "none"
          <=> Get(CurLine.request, "name", "") \in Elems(Manifest.resources))
  /\ (pc = "write" /\ IsRequestOfKind(CurLine, {"tool"})) =>
       (outcome.handler # "none"
          <=> Get(CurLine.request, "name", "") \in Elems(Manifest.tools))

\* the manifest has been written in answer to a manifest request
C26_Witness ==
  /\ pc = "read"
  /\ Len(linesRead) = 1
  /\ IsRequestOfKind(linesRead[1], {"manifest"})
  /\ Len(stdout) = 1
  /\ stdout[1].type = "manifest_response"
  /\ "generate_cards_from_topic" \in Elems(stdout[1].body.tools)
  /\ "anki://search/isnew" \in Elems(stdout[1].body.resources)

\* C27: start checks the AnkiConnect connection before the loop: when the check
\* fails, it returns without reading any line from stdin and without writing any
\* response to stdout.
C27_NoConnectionNoReadNoWrite ==
  exitReason = "noconnect" =>
    /\ pc = "done"
    /\ linesRead = <<>>
    /\ outcome = <<>>
    /\ stdout = <<>>

\* the check failed and start has returned
C27_Witness ==
  /\ pc = "done"
  /\ exitReason = "noconnect"
  /\ linesRead = <<>>
  /\ stdout = <<>>

====
